---- MODULE Spec2Model ----
(***************************************************************************)
(* A model of map_transformer::Transformer (src/src/transformer.cpp and    *)
(* its header, src/unnamed/part_002).                                      *)
(*                                                                         *)
(* Numbers.  Point2D and Vector2D are pairs of float, the per-triangle     *)
(* matrices hold doubles.  Every number the model handles is a rational    *)
(* <<numerator, denominator>> in lowest terms with a positive              *)
(* denominator.  The conversion of a document's int to float rounds to the *)
(* 24 bits of a float's significand; the arithmetic after it is modelled   *)
(* exactly (its rounding is left out).                                     *)
(*                                                                         *)
(* Rotation.  _robot_map_rotation is an angle in radians.  The model       *)
(* counts it in quarter turns (0, 1, 2, 3), the angles whose sine and      *)
(* cosine are rational.                                                    *)
(*                                                                         *)
(* OpenCV.  cv::Subdiv2D, cv::pointPolygonTest and cv::getAffineTransform  *)
(* are library calls; they are modelled by what they compute (a Delaunay   *)
(* triangulation of the inserted points together with the three outer      *)
(* vertices of the subdivision, a closed point-in-polygon test, the        *)
(* solution of the six linear equations).  The order in which Subdiv2D     *)
(* lists its triangles and the diagonal it takes among cocircular points   *)
(* are the library's business: the model lets load pick one of two orders. *)
(*                                                                         *)
(* Specifications.  Spec makes every call of the class on one instance,    *)
(* with documents of three and four pairs of points.  SpecDocuments loads  *)
(* documents of many sizes, translations and lists into an instance that   *)
(* has not held data yet, keeps the document with the result of load, and  *)
(* reads the instance back.                                                *)
(***************************************************************************)
EXTENDS Integers, Sequences, FiniteSets, TLC

VARIABLES
    transformer,    \* the Transformer instance under test
    fresh,          \* a second instance, constructed anew whenever the first
                    \* is reset, and given the same calls ever since
    result,         \* what the last call on transformer returned or threw
    fresh_result    \* what the same call on fresh returned or threw

vars == <<transformer, fresh, result, fresh_result>>

---------------------------------------------------------------------------
(* Bounds of the model *)

\* query points and the moving correspondence point range over 0..MaxCoord
MaxCoord == 3
\* the scale of a document's transform ranges over 0..MaxScale in each axis
MaxScale == 2
\* a translation goes up to MaxShift past the last one at which the maps touch
MaxShift == 1

---------------------------------------------------------------------------
(* float / double arithmetic, exact *)

Abs(i) == IF i < 0 THEN -i ELSE i

Sign(i) == IF i < 0 THEN -1 ELSE IF i = 0 THEN 0 ELSE 1

Min(i, j) == IF i < j THEN i ELSE j

Max(i, j) == IF i < j THEN j ELSE i

RECURSIVE Gcd(_, _)
Gcd(a, b) == IF b = 0 THEN a ELSE Gcd(b, a % b)

Lcm(a, b) == (a * b) \div Gcd(a, b)

\* the rational n/d in lowest terms, d # 0
Rat(n, d) ==
    LET g == Gcd(Abs(n), Abs(d))
        s == IF d < 0 THEN -1 ELSE 1
    IN  <<(s * n) \div g, (s * d) \div g>>

\* the distance between neighbouring floats at the magnitude n >= 0: a float
\* has a significand of 24 bits
RECURSIVE Ulp(_)
Ulp(n) == IF n < 2^24 THEN 1 ELSE 2 * Ulp(n \div 2)

\* the float nearest to the integer n >= 0, the one with the even significand
\* of two that are as near
Nearest(n, ulp) ==
    LET q == n \div ulp
        r == n % ulp
    IN  IF 2 * r < ulp \/ (2 * r = ulp /\ q % 2 = 0)
        THEN q * ulp
        ELSE (q + 1) * ulp

\* int to float, as in Point2D{p[0].as<int>(), p[1].as<int>()}
Float(i) == <<Sign(i) * Nearest(Abs(i), Ulp(Abs(i))), 1>>

FloatPair(v) == <<Float(v[1]), Float(v[2])>>

RAdd(a, b) == Rat(a[1] * b[2] + b[1] * a[2], a[2] * b[2])

RSub(a, b) == Rat(a[1] * b[2] - b[1] * a[2], a[2] * b[2])

RMul(a, b) == Rat(a[1] * b[1], a[2] * b[2])

\* b # 0: the validator refuses a zero scale, the only divisor of the code
RDiv(a, b) == Rat(a[1] * b[2], a[2] * b[1])

RLt(a, b) == a[1] * b[2] < b[1] * a[2]

RLe(a, b) == a[1] * b[2] <= b[1] * a[2]

RMin(a, b) == IF RLt(b, a) THEN b ELSE a

RMax(a, b) == IF RLt(a, b) THEN b ELSE a

Zero == Float(0)

One == Float(1)

\* (int) of a float that holds an integer, as in cv::Rect(0, 0, float, float)
Trunc(a) == IF a[1] >= 0 THEN a[1] \div a[2] ELSE -((-a[1]) \div a[2])

\* cos and sin of a rotation of r quarter turns
Cos(r) == CASE r % 4 = 0 -> 1 [] r % 4 = 1 -> 0 [] r % 4 = 2 -> -1 [] OTHER -> 0

Sin(r) == CASE r % 4 = 0 -> 0 [] r % 4 = 1 -> 1 [] r % 4 = 2 -> 0 [] OTHER -> -1

---------------------------------------------------------------------------
(* plane geometry on points <<x, y>> of rationals *)

\* the points a..d scaled to integer coordinates by a common denominator
CommonDen(ps) ==
    LET RECURSIVE L(_)
        L(i) == IF i > Len(ps) THEN 1
                ELSE Lcm(Lcm(ps[i][1][2], ps[i][2][2]), L(i + 1))
    IN  L(1)

Scaled(p, den) == <<p[1][1] * (den \div p[1][2]), p[2][1] * (den \div p[2][2])>>

\* twice the signed area of a, b, c on integer coordinates
Cross(a, b, c) == (b[1] - a[1]) * (c[2] - a[2]) - (b[2] - a[2]) * (c[1] - a[1])

\* 1: a, b, c turn left; -1: they turn right; 0: they are collinear
Orient(a, b, c) ==
    LET den == CommonDen(<<a, b, c>>)
    IN  Sign(Cross(Scaled(a, den), Scaled(b, den), Scaled(c, den)))

\* the same on integer coordinates: the sign of the in-circle determinant,
\* taken against the orientation of A, B, C
InCircleScaled(A, B, C, D) ==
    LET ax == A[1] - D[1]
        ay == A[2] - D[2]
        bx == B[1] - D[1]
        by == B[2] - D[2]
        cx == C[1] - D[1]
        cy == C[2] - D[2]
        det == (ax * ax + ay * ay) * (bx * cy - by * cx)
             - (bx * bx + by * by) * (ax * cy - ay * cx)
             + (cx * cx + cy * cy) * (ax * by - ay * bx)
    IN  det * Cross(A, B, C) > 0

\* d lies strictly inside the circle through a, b, c (not collinear)
InCircle(a, b, c, d) ==
    LET den == CommonDen(<<a, b, c, d>>)
    IN  InCircleScaled(Scaled(a, den), Scaled(b, den), Scaled(c, den),
                       Scaled(d, den))

\* p lies on the closed segment from a to b
OnSegment(p, a, b) ==
    /\ Orient(a, b, p) = 0
    /\ RLe(RMin(a[1], b[1]), p[1]) /\ RLe(p[1], RMax(a[1], b[1]))
    /\ RLe(RMin(a[2], b[2]), p[2]) /\ RLe(p[2], RMax(a[2], b[2]))

\* the open segments a-b and c-d cross in one point
ProperCross(a, b, c, d) ==
    /\ Orient(a, b, c) * Orient(a, b, d) < 0
    /\ Orient(c, d, a) * Orient(c, d, b) < 0

\* where a point lies whose turns against the three edges are o1, o2, o3
Side(o1, o2, o3, on_edge) ==
    IF on_edge
    THEN 0
    ELSE IF (o1 > 0 /\ o2 > 0 /\ o3 > 0) \/ (o1 < 0 /\ o2 < 0 /\ o3 < 0)
    THEN 1
    ELSE -1

\* cv::pointPolygonTest(triangle, pt, false): 1 inside, 0 on an edge or a
\* vertex, -1 outside
pointPolygonTest(triangle, pt) ==
    Side(Orient(triangle[1], triangle[2], pt),
         Orient(triangle[2], triangle[3], pt),
         Orient(triangle[3], triangle[1], pt),
         \/ OnSegment(pt, triangle[1], triangle[2])
         \/ OnSegment(pt, triangle[2], triangle[3])
         \/ OnSegment(pt, triangle[3], triangle[1]))

\* a row <<m0, m1, m2>> of the matrix: m0 * x1 + m1 * y1 + m2 = u1
AffineRow(m0, m1, u1, x1, y1) ==
    <<m0, m1, RSub(RSub(u1, RMul(m0, x1)), RMul(m1, y1))>>

\* cv::getAffineTransform(src, dst): the 2x3 matrix that takes src[i] to
\* dst[i]; the library's solver gives the zero matrix when src is collinear
getAffineTransform(src, dst) ==
    LET x1 == src[1][1]
        y1 == src[1][2]
        x2 == src[2][1]
        y2 == src[2][2]
        x3 == src[3][1]
        y3 == src[3][2]
        det == RAdd(RAdd(RMul(x1, RSub(y2, y3)), RMul(x2, RSub(y3, y1))),
                    RMul(x3, RSub(y1, y2)))
        row(u1, u2, u3) ==
            AffineRow(
                RDiv(RAdd(RAdd(RMul(u1, RSub(y2, y3)), RMul(u2, RSub(y3, y1))),
                          RMul(u3, RSub(y1, y2))), det),
                RDiv(RAdd(RAdd(RMul(u1, RSub(x3, x2)), RMul(u2, RSub(x1, x3))),
                          RMul(u3, RSub(x2, x1))), det),
                u1, x1, y1)
    IN  IF det = Zero
        THEN <<<<Zero, Zero, Zero>>, <<Zero, Zero, Zero>>>>
        ELSE <<row(dst[1][1], dst[2][1], dst[3][1]),
               row(dst[1][2], dst[2][2], dst[3][2])>>

---------------------------------------------------------------------------
(* The instance: the data members of class Transformer *)

\* the members as their own default constructors leave them, before the
\* constructor body runs.  _robot_map_rotation (a double) is indeterminate
\* there; reset() assigns it before anything reads it.
Members ==
    [ ref_map_name |-> "",
      ref_map_image_file |-> "",
      ref_map_size |-> <<Zero, Zero>>,
      robot_map_name |-> "",
      robot_map_image_file |-> "",
      robot_map_size |-> <<Zero, Zero>>,
      robot_map_scale |-> <<Zero, Zero>>,
      robot_map_rotation |-> 0,
      robot_map_translation |-> <<Zero, Zero>>,
      ref_corr_points |-> <<>>,
      robot_corr_points |-> <<>>,
      triangles |-> <<>>,
      to_ref_transforms |-> <<>>,
      to_robot_transforms |-> <<>> ]

\* Transformer::reset() written without the line that clears _triangles
reset_keeps_triangles(this) ==
    [this EXCEPT
        !.ref_map_name = "",
        !.ref_map_image_file = "",
        !.ref_map_size = <<Zero, Zero>>,
        !.robot_map_name = "",
        !.robot_map_image_file = "",
        !.robot_map_size = <<Zero, Zero>>,
        !.robot_map_scale = <<One, One>>,
        !.robot_map_rotation = 0,
        !.robot_map_translation = <<Zero, Zero>>,
        !.ref_corr_points = <<>>,
        !.robot_corr_points = <<>>]

\* Transformer::reset(): the two tables of matrices are not touched
reset(this) ==
    [this EXCEPT
        !.ref_map_name = "",
        !.ref_map_image_file = "",
        !.ref_map_size = <<Zero, Zero>>,
        !.robot_map_name = "",
        !.robot_map_image_file = "",
        !.robot_map_size = <<Zero, Zero>>,
        !.robot_map_scale = <<One, One>>,
        !.robot_map_rotation = 0,
        !.robot_map_translation = <<Zero, Zero>>,
        !.ref_corr_points = <<>>,
        !.robot_corr_points = <<>>,
        !.triangles = <<>>]

\* Transformer::Transformer()
Transformer == reset(Members)

\* Transformer::_empty(): the tables of matrices are not looked at
_empty(this) ==
    /\ this.ref_map_name = ""
    /\ this.ref_map_image_file = ""
    /\ this.ref_map_size = <<Zero, Zero>>
    /\ this.robot_map_name = ""
    /\ this.robot_map_image_file = ""
    /\ this.robot_map_size = <<Zero, Zero>>
    /\ this.robot_map_scale = <<One, One>>
    /\ this.robot_map_rotation = 0
    /\ this.robot_map_translation = <<Zero, Zero>>
    /\ this.ref_corr_points = <<>>
    /\ this.robot_corr_points = <<>>
    /\ this.triangles = <<>>

---------------------------------------------------------------------------
(* The getters *)

ref_map_name(this) == this.ref_map_name

ref_map_image_file(this) == this.ref_map_image_file

ref_map_size(this) == this.ref_map_size

\* robot_map_name() returning the name of the other map
robot_map_name_of_ref(this) == this.ref_map_name

robot_map_name(this) == this.robot_map_name

robot_map_image_file(this) == this.robot_map_image_file

robot_map_size(this) == this.robot_map_size

robot_map_scale(this) == this.robot_map_scale

robot_map_rotation(this) == this.robot_map_rotation

robot_map_translation(this) == this.robot_map_translation

ref_map_corr_points(this) == this.ref_corr_points

robot_map_corr_points(this) == this.robot_corr_points

triangle_indices(this) == this.triangles

\* Transformer::bounding_box() with the robot map not moved by the
\* translation before the maximum is taken
bounding_box_of_sizes(this) ==
    LET top_left ==
            <<RMin(Zero, this.robot_map_translation[1]),
              RMin(Zero, this.robot_map_translation[2])>>
        bottom_right ==
            <<RMax(this.ref_map_size[1], this.robot_map_size[1]),
              RMax(this.ref_map_size[2], this.robot_map_size[2])>>
    IN  <<top_left, bottom_right>>

\* Transformer::bounding_box()
bounding_box(this) ==
    LET top_left ==
            <<RMin(Zero, this.robot_map_translation[1]),
              RMin(Zero, this.robot_map_translation[2])>>
        bottom_right ==
            <<RMax(this.ref_map_size[1],
                   RAdd(this.robot_map_size[1], this.robot_map_translation[1])),
              RMax(this.ref_map_size[2],
                   RAdd(this.robot_map_size[2], this.robot_map_translation[2]))>>
    IN  <<top_left, bottom_right>>

---------------------------------------------------------------------------
(* The YAML document and the files it names *)

\* a YAML node: <<>> where the key is absent, <<v>> where it holds v
IsDefined(node) == node # <<>>

\* cv::imread(path): <<cols, rows>> of the image, <<>> when there is no such
\* file or it is no image.  The file system holds two images.
imread(path) ==
    CASE path = "ref.png" -> <<5, 5>>
      [] path = "robot.png" -> <<7, 7>>
      [] OTHER -> <<>>

\* std::filesystem::exists(path) && is_regular_file(path)
is_regular_file(path) == path \in {"ref.png", "robot.png", "notes.txt"}

\* Transformer::load(), from "Transformer loaded;" to the last push_back:
\* the document read into a local instance.  YAML::Load and every as<T>() of
\* an absent node throw a YAML::Exception, which is a std::runtime_error; an
\* absent image_file or transform is skipped, and a loop over an absent list
\* of points runs no times.
parse_document(yaml_doc) ==
    LET ref == yaml_doc.ref_map
        robot == yaml_doc.robot_map
        loaded == Transformer
        throws ==
            \/ ~yaml_doc.well_formed
            \/ ~IsDefined(ref.name)
            \/ ~IsDefined(ref.size)
            \/ ~IsDefined(robot.name)
            \/ ~IsDefined(robot.size)
        points(node) ==
            IF IsDefined(node)
            THEN [i \in 1..Len(node[1]) |-> FloatPair(node[1][i])]
            ELSE <<>>
    IN  IF throws
        THEN [fault |-> "runtime_error", what |-> "YAML", loaded |-> loaded]
        ELSE [fault |-> "none", what |-> "",
              loaded |->
                [loaded EXCEPT
                    !.ref_map_name = ref.name[1],
                    !.ref_map_image_file =
                        IF IsDefined(ref.image_file) THEN ref.image_file[1] ELSE @,
                    !.ref_map_size = FloatPair(ref.size[1]),
                    !.robot_map_name = robot.name[1],
                    !.robot_map_image_file =
                        IF IsDefined(robot.image_file) THEN robot.image_file[1] ELSE @,
                    !.robot_map_size = FloatPair(robot.size[1]),
                    !.robot_map_scale =
                        IF IsDefined(robot.transform)
                        THEN FloatPair(robot.transform[1].scale) ELSE @,
                    !.robot_map_rotation =
                        IF IsDefined(robot.transform)
                        THEN robot.transform[1].rotation ELSE @,
                    !.robot_map_translation =
                        IF IsDefined(robot.transform)
                        THEN FloatPair(robot.transform[1].translation) ELSE @,
                    !.ref_corr_points = points(ref.correspondence_points),
                    !.robot_corr_points = points(robot.correspondence_points)]]

\* the checks of the correspondence points, the two sizes compared one way
\* only
validate_corr_points_one_way(this) ==
    IF this.ref_corr_points = <<>>
    THEN "No reference map correspondence points provided"
    ELSE IF this.robot_corr_points = <<>>
    THEN "No robot map correspondence points provided"
    ELSE IF Len(this.ref_corr_points) > Len(this.robot_corr_points)
    THEN "Number of reference correspondence points and number of robot correspondence points do not match"
    ELSE ""

\* Transformer::_validate(), the checks of the correspondence points: ""
\* when they pass, else the message of the first that fails
validate_corr_points(this) ==
    IF this.ref_corr_points = <<>>
    THEN "No reference map correspondence points provided"
    ELSE IF this.robot_corr_points = <<>>
    THEN "No robot map correspondence points provided"
    ELSE IF Len(this.ref_corr_points) # Len(this.robot_corr_points)
    THEN "Number of reference correspondence points and number of robot correspondence points do not match"
    ELSE ""

\* the check of the overlap with >= and <= for > and <
validate_overlap_strictly(this) ==
    IF \/ RLe(this.ref_map_size[1], this.robot_map_translation[1])
       \/ RLe(this.ref_map_size[2], this.robot_map_translation[2])
       \/ RLe(RAdd(this.robot_map_translation[1], this.robot_map_size[1]), Zero)
       \/ RLe(RAdd(this.robot_map_translation[2], this.robot_map_size[2]), Zero)
    THEN "Reference map and robot map do not overlap"
    ELSE ""

\* Transformer::_validate(), the check that the robot map overlaps the
\* reference map
validate_overlap(this) ==
    IF \/ RLt(this.ref_map_size[1], this.robot_map_translation[1])
       \/ RLt(this.ref_map_size[2], this.robot_map_translation[2])
       \/ RLt(RAdd(this.robot_map_translation[1], this.robot_map_size[1]), Zero)
       \/ RLt(RAdd(this.robot_map_translation[2], this.robot_map_size[2]), Zero)
    THEN "Reference map and robot map do not overlap"
    ELSE ""

\* the check of the scale with && for ||
validate_scale_both(this) ==
    IF this.robot_map_scale[1] = Zero /\ this.robot_map_scale[2] = Zero
    THEN "Invalid scale value: 0"
    ELSE ""

\* Transformer::_validate(), the check of the scale
validate_scale(this) ==
    IF this.robot_map_scale[1] = Zero \/ this.robot_map_scale[2] = Zero
    THEN "Invalid scale value: 0"
    ELSE ""

\* Transformer::_validate(), the checks of the image files
validate_image_files(this) ==
    LET image(file, size) ==
            imread(file) # <<>> /\ FloatPair(imread(file)) = size
    IN  IF /\ this.ref_map_image_file # ""
           /\ ~is_regular_file(this.ref_map_image_file)
        THEN "Reference map image file does not exist or is not accessible"
        ELSE IF /\ this.robot_map_image_file # ""
                /\ ~is_regular_file(this.robot_map_image_file)
        THEN "Robot map image file does not exist or is not accessible"
        ELSE IF /\ this.ref_map_image_file # ""
                /\ imread(this.ref_map_image_file) = <<>>
        THEN "Reference map image file does not exist or is not accessible"
        ELSE IF /\ this.ref_map_image_file # ""
                /\ ~image(this.ref_map_image_file, this.ref_map_size)
        THEN "Reference map image file dimensions do not match map dimensions"
        ELSE IF /\ this.robot_map_image_file # ""
                /\ imread(this.robot_map_image_file) = <<>>
        THEN "Robot map image file does not exist or is not accessible"
        ELSE IF /\ this.robot_map_image_file # ""
                /\ ~image(this.robot_map_image_file, this.robot_map_size)
        THEN "Robot map image file dimensions do not match map dimensions"
        ELSE ""

\* _validate() without the test of the scale
_validate_without_scale(this) ==
    IF validate_corr_points(this) # "" THEN validate_corr_points(this)
    ELSE IF validate_overlap(this) # "" THEN validate_overlap(this)
    ELSE validate_image_files(this)

\* Transformer::_validate(): "" when every check passes, else the message of
\* the std::runtime_error of the first check that fails
_validate(this) ==
    IF validate_corr_points(this) # "" THEN validate_corr_points(this)
    ELSE IF validate_overlap(this) # "" THEN validate_overlap(this)
    ELSE IF validate_scale(this) # "" THEN validate_scale(this)
    ELSE validate_image_files(this)

---------------------------------------------------------------------------
(* Triangulation and the per-triangle matrices *)

\* std::find stopping at the last match instead of the first
find_from_back(points, point) ==
    IF \E i \in 1..Len(points) : points[i] = point
    THEN (CHOOSE i \in 1..Len(points) :
            /\ points[i] = point
            /\ \A j \in (i + 1)..Len(points) : points[j] # point) - 1
    ELSE -1

\* std::find(begin, end, point) as an offset from begin, -1 for end
find(points, point) ==
    IF \E i \in 1..Len(points) : points[i] = point
    THEN (CHOOSE i \in 1..Len(points) :
            /\ points[i] = point
            /\ \A j \in 1..(i - 1) : points[j] # point) - 1
    ELSE -1

\* Transformer::get_correspondence_point_index() searching from the back
find_last(point, points) ==
    IF \E i \in 1..Len(points) : points[i] = point
    THEN (CHOOSE i \in 1..Len(points) :
            /\ points[i] = point
            /\ \A j \in (i + 1)..Len(points) : points[j] # point) - 1
    ELSE -1

\* Transformer::get_correspondence_point_index()
get_correspondence_point_index(point, points) == find(points, point)

\* Transformer::calculate_correspondence_midpoints()
calculate_correspondence_midpoints(this) ==
    [ii \in 1..Len(this.ref_corr_points) |->
        <<RAdd(this.ref_corr_points[ii][1],
               RDiv(RSub(this.robot_corr_points[ii][1], this.ref_corr_points[ii][1]),
                    Float(2))),
          RAdd(this.ref_corr_points[ii][2],
               RDiv(RSub(this.robot_corr_points[ii][2], this.ref_corr_points[ii][2]),
                    Float(2)))>>]

\* the points of a sequence, each kept where it first occurs
RECURSIVE Distinct(_)
Distinct(points) ==
    IF points = <<>> THEN <<>>
    ELSE LET front == Distinct(SubSeq(points, 1, Len(points) - 1))
             last == points[Len(points)]
         IN  IF find(front, last) >= 0 THEN front ELSE Append(front, last)

\* cv::Subdiv2D(cv::Rect(0, 0, width, height)) followed by insert() of every
\* point: insert throws a cv::Exception for a point outside the rectangle
\* (x < 0, y < 0, x >= width or y >= height) and gives the vertex already
\* there for a point inserted before.  The subdivision starts from three
\* outer vertices at 3 * max(width, height).
Subdiv2D(width, height, points) ==
    LET big == 3 * Max(width, height)
        outside(p) ==
            \/ RLt(p[1], Zero)
            \/ RLt(p[2], Zero)
            \/ RLe(Float(width), p[1])
            \/ RLe(Float(height), p[2])
    IN  [ fault |-> IF \E i \in 1..Len(points) : outside(points[i])
                    THEN "cv::Exception" ELSE "none",
          vertices |-> Distinct(points),
          outer |-> <<FloatPair(<<big, 0>>), FloatPair(<<0, big>>),
                      FloatPair(<<-big, -big>>)>> ]

\* two triangles one of whose edges crosses an edge of the other
Crossing(s, t) ==
    \E i, j \in 1..3 :
        ProperCross(s[i], s[(i % 3) + 1], t[j], t[(j % 3) + 1])

\* a list of triangles in the order asked for
Ordered(list, order) ==
    IF order = "ascending" THEN list
    ELSE [i \in 1..Len(list) |-> list[Len(list) + 1 - i]]

\* triangles of vertex numbers as triangles of points
PointsOf(v, list) ==
    [i \in 1..Len(list) |-> <<v[list[i][1]], v[list[i][2]], v[list[i][3]]>>]

\* the triangles of a list, each taken unless it crosses one taken before
RECURSIVE TakeUncrossed(_, _)
TakeUncrossed(list, taken) ==
    IF list = <<>> THEN taken
    ELSE IF \E k \in 1..Len(taken) : Crossing(taken[k], Head(list))
    THEN TakeUncrossed(Tail(list), taken)
    ELSE TakeUncrossed(Tail(list), Append(taken, Head(list)))

\* cv::Subdiv2D::getTriangleList(): the Delaunay triangles whose three
\* vertices are inserted points, each as its three points.  A triangle is
\* Delaunay when no other vertex, outer vertices included, lies strictly
\* inside its circle.  Among cocircular vertices the triangles are taken in
\* the order of the list (ascending or descending by vertex), one that
\* crosses a triangle already taken being left out.
getTriangleList(subdiv, order) ==
    LET v == subdiv.vertices
        n == Len(v)
        all == [c \in 1..(n * n * n) |->
                    <<((c - 1) \div (n * n)) + 1,
                      (((c - 1) \div n) % n) + 1,
                      ((c - 1) % n) + 1>>]
        delaunay(t) ==
            /\ t[1] < t[2] /\ t[2] < t[3]
            /\ Orient(v[t[1]], v[t[2]], v[t[3]]) # 0
            /\ \A i \in 1..n :
                i \in {t[1], t[2], t[3]}
                    \/ ~InCircle(v[t[1]], v[t[2]], v[t[3]], v[i])
            /\ \A i \in 1..3 :
                ~InCircle(v[t[1]], v[t[2]], v[t[3]], subdiv.outer[i])
    IN  TakeUncrossed(PointsOf(v, Ordered(SelectSeq(all, delaunay), order)), <<>>)

\* the for loop of Transformer::subdivide_and_index_triangles() pushing the
\* first index in the place of the second
RECURSIVE index_triangles_repeating(_, _, _)
index_triangles_repeating(this, midpoints, raw_triangles) ==
    IF raw_triangles = <<>>
    THEN [this |-> this, fault |-> "none", what |-> ""]
    ELSE LET t == Head(raw_triangles)
             i0 == find(midpoints, t[1])
             i1 == find(midpoints, t[2])
             i2 == find(midpoints, t[3])
         IN  IF i0 < 0 \/ i1 < 0 \/ i2 < 0
             THEN [this |-> this, fault |-> "runtime_error",
                   what |-> "Could not find expected triangle point"]
             ELSE index_triangles_repeating(
                    [this EXCEPT !.triangles = Append(@, <<i0, i0, i2>>)],
                    midpoints, Tail(raw_triangles))

\* the for loop of Transformer::subdivide_and_index_triangles(): every raw
\* triangle is pushed as three indices into the midpoints, and a vertex that
\* is no midpoint stops the loop with a std::runtime_error
RECURSIVE index_triangles(_, _, _)
index_triangles(this, midpoints, raw_triangles) ==
    IF raw_triangles = <<>>
    THEN [this |-> this, fault |-> "none", what |-> ""]
    ELSE LET t == Head(raw_triangles)
             i0 == find(midpoints, t[1])
             i1 == find(midpoints, t[2])
             i2 == find(midpoints, t[3])
         IN  IF i0 < 0 \/ i1 < 0 \/ i2 < 0
             THEN [this |-> this, fault |-> "runtime_error",
                   what |-> "Could not find expected triangle point"]
             ELSE index_triangles(
                    [this EXCEPT !.triangles = Append(@, <<i0, i1, i2>>)],
                    midpoints, Tail(raw_triangles))

\* Transformer::subdivide_and_index_triangles()
subdivide_and_index_triangles(this, order) ==
    LET index(midpoints, subdiv) ==
            IF subdiv.fault # "none"
            THEN [this |-> this, fault |-> subdiv.fault,
                  what |-> "Subdiv2D::insert"]
            ELSE index_triangles(this, midpoints, getTriangleList(subdiv, order))
        insert(midpoints, bottom_right) ==
            index(midpoints,
                  Subdiv2D(Trunc(bottom_right[1]), Trunc(bottom_right[2]),
                           midpoints))
    IN  insert(calculate_correspondence_midpoints(this), bounding_box(this)[2])

\* Transformer::triangle_points()
triangle_points(triangle, points) ==
    <<points[triangle[1] + 1], points[triangle[2] + 1], points[triangle[3] + 1]>>

\* Transformer::precalculate_triangle_transforms(): one matrix is pushed on
\* each table for every triangle of the list
precalculate_triangle_transforms(this) ==
    LET t_ref(k) == triangle_points(this.triangles[k], this.ref_corr_points)
        t_robot(k) == triangle_points(this.triangles[k], this.robot_corr_points)
    IN  [this EXCEPT
            !.to_ref_transforms =
                @ \o [k \in 1..Len(this.triangles) |->
                        getAffineTransform(t_robot(k), t_ref(k))],
            !.to_robot_transforms =
                @ \o [k \in 1..Len(this.triangles) |->
                        getAffineTransform(t_ref(k), t_robot(k))]]

\* Transformer::precalculate()
precalculate(this, order) ==
    LET transforms(indexed) ==
            IF indexed.fault # "none"
            THEN indexed
            ELSE [this |-> precalculate_triangle_transforms(indexed.this),
                  fault |-> "none", what |-> ""]
    IN  transforms(subdivide_and_index_triangles(this, order))

---------------------------------------------------------------------------
(* The documents and query points the calls are made with *)

\* the integer points of the diagonal from (0, 0) to (MaxCoord, MaxCoord)
Diagonal == { <<k, k>> : k \in 0..MaxCoord }

\* three points every document with points starts its lists with
Corners == <<<<0, 0>>, <<3, 0>>, <<0, 3>>>>

\* a document with both names, both sizes, no image file, the given lists of
\* points (<<>> for an absent key) and the given transform node
Document(ref_points, robot_points, transform) ==
    [ well_formed |-> TRUE,
      ref_map |->
        [ name |-> <<"ref">>, image_file |-> <<>>, size |-> <<<<5, 5>>>>,
          correspondence_points |-> ref_points ],
      robot_map |->
        [ name |-> <<"robot">>, image_file |-> <<>>, size |-> <<<<7, 7>>>>,
          transform |-> transform,
          correspondence_points |-> robot_points ] ]

\* a fourth pair of points, the reference point on the diagonal; the robot point either
\* repeats the first robot point or lies across the third triangle edge
GeometryDocs ==
    { Document(<<Append(Corners, rd)>>, <<Append(Corners, qd)>>, <<>>) :
        rd \in Diagonal, qd \in {<<0, 0>>, <<6, 6>>} }

\* lists cut to no, one or all three points
PrefixDocs ==
    { Document(<<SubSeq(Corners, 1, nr)>>, <<SubSeq(Corners, 1, nq)>>, <<>>) :
        nr \in {0, 1, 3}, nq \in {0, 1, 3} }

\* rotations are counted in quarter turns
TransformDocs ==
    { Document(<<Corners>>, <<Corners>>,
               <<[scale |-> sc, rotation |-> r, translation |-> t]>>) :
        sc \in (0..MaxScale) \X (0..MaxScale),
        r \in {0, 1},
        t \in {<<1, 2>>, <<6, 0>>} }

\* a point whose midpoint lies outside the rectangle the subdivision is
\* made for
OutsideDocs ==
    { Document(<<<<pt>> \o Tail(Corners)>>, <<<<pt>> \o Tail(Corners)>>, <<>>) :
        pt \in {<<-1, -1>>, <<9, 9>>} }

PlainDoc == Document(<<Corners>>, <<Corners>>, <<>>)

MetadataDocs ==
    { [PlainDoc EXCEPT !.well_formed = FALSE],
      [PlainDoc EXCEPT !.ref_map.name = <<>>],
      [PlainDoc EXCEPT !.ref_map.size = <<>>],
      [PlainDoc EXCEPT !.robot_map.name = <<>>],
      [PlainDoc EXCEPT !.robot_map.size = <<>>],
      [PlainDoc EXCEPT !.ref_map.correspondence_points = <<>>],
      [PlainDoc EXCEPT !.robot_map.correspondence_points = <<>>] }
    \cup { [PlainDoc EXCEPT !.ref_map.image_file = <<f>>] :
            f \in {"ref.png", "robot.png", "notes.txt", "missing.png"} }
    \cup { [PlainDoc EXCEPT !.robot_map.image_file = <<f>>] :
            f \in {"robot.png", "ref.png"} }

Docs == GeometryDocs \cup PrefixDocs \cup TransformDocs \cup OutsideDocs
            \cup MetadataDocs

\* the order in which getTriangleList lists the triangles
Orders == {"ascending", "descending"}

\* the points queries are made with: the grid's diagonal and lower edge
QueryPoints ==
    { FloatPair(<<x, 0>>) : x \in 0..MaxCoord } \cup { FloatPair(pt) : pt \in Diagonal }

\* what parsing and validating a document on its own say of it: "" for a
\* document that passes both
Kind(yaml_doc) ==
    LET parsed == parse_document(yaml_doc)
    IN  IF parsed.fault # "none" THEN parsed.what ELSE _validate(parsed.loaded)

\* the instances the documents are parsed into that pass validation
Loadable == { parse_document(yaml_doc).loaded : yaml_doc \in { d \in Docs : Kind(d) = "" } }

\* precalculate() of every such instance, worked out once
Precalculated ==
    [ key \in Loadable \X Orders |-> precalculate(key[1], key[2]) ] @@ <<>>


---------------------------------------------------------------------------
(* load *)

\* Transformer::operator=(Transformer const &), implicitly defined: every
\* data member of loaded is copied, the two tables of matrices included
assign(this, loaded) == loaded

\* the entry of a table under a key, or else a value worked out
Lookup(table, key, else_value) ==
    IF key \in DOMAIN table THEN table[key] ELSE else_value

\* precalculate() on *this, looked up where it has been worked out
precalculated(this, order) ==
    Lookup(Precalculated, <<this, order>>, precalculate(this, order))

\* the outcome of a call that returns no value
Outcome(this, fault, what) == [this |-> this, fault |-> fault, what |-> what]

\* Transformer::load() from "loaded._validate();": the validation of the
\* instance parsed, the assignment to *this and precalculate() on *this
load_validated(this, loaded, invalid, order) ==
    IF invalid # ""
    THEN Outcome(this, "runtime_error", invalid)
    ELSE precalculated(assign(this, loaded), order)

\* Transformer::load() from "Transformer loaded;": an exception of the
\* parser leaves load() before anything is validated
load_parsed(this, parsed, order) ==
    IF parsed.fault # "none"
    THEN Outcome(this, parsed.fault, parsed.what)
    ELSE load_validated(this, parsed.loaded, _validate(parsed.loaded), order)

\* the same with the data claimed before it is validated
load_claimed(this, parsed, order) ==
    IF parsed.fault # "none"
    THEN Outcome(this, parsed.fault, parsed.what)
    ELSE IF _validate(parsed.loaded) # ""
    THEN Outcome(assign(this, parsed.loaded), "runtime_error",
                 _validate(parsed.loaded))
    ELSE precalculated(assign(this, parsed.loaded), order)

\* Transformer::load() with the emptiness check moved after the parsing
load_parses_first(this, yaml_doc, order) ==
    IF parse_document(yaml_doc).fault = "none" /\ ~_empty(this)
    THEN Outcome(this, "logic_error",
                 "Transformer must be empty prior to calling load()")
    ELSE load_parsed(this, parse_document(yaml_doc), order)

\* Transformer::load() with the data claimed before it is validated
load_claims_first(this, yaml_doc, order) ==
    IF ~_empty(this)
    THEN Outcome(this, "logic_error",
                 "Transformer must be empty prior to calling load()")
    ELSE load_claimed(this, parse_document(yaml_doc), order)

\* Transformer::load(): the emptiness check, then the parse into a local
\* instance and what follows it.  An exception leaves *this as the statements
\* before it made it.
load(this, yaml_doc, order) ==
    IF ~_empty(this)
    THEN Outcome(this, "logic_error",
                 "Transformer must be empty prior to calling load()")
    ELSE load_parsed(this, parse_document(yaml_doc), order)

---------------------------------------------------------------------------
(* Queries *)

\* the outcome of a call that returns a value
Returned(value) == [fault |-> "none", what |-> "", value |-> <<value>>]

\* a triangle of the list names a point the list of points does not hold:
\* the vector is then read out of range
OutOfRange(this, points) ==
    \E k \in 1..Len(this.triangles) :
        \E i \in 1..3 : this.triangles[k][i] >= Len(points)

\* the loop over the triangles keeping the last that holds the point
find_last_containing_triangle(this, points, point) ==
    LET holds(ii) ==
            pointPolygonTest(triangle_points(this.triangles[ii + 1], points),
                             point) >= 0
    IN  IF \E ii \in 0..(Len(this.triangles) - 1) : holds(ii)
        THEN CHOOSE ii \in 0..(Len(this.triangles) - 1) :
                /\ holds(ii)
                /\ \A jj \in (ii + 1)..(Len(this.triangles) - 1) : ~holds(jj)
        ELSE -1

\* the for loop of find_containing_triangle_in_ref / _in_robot over the
\* triangles taken in points: the first that holds the point, else -1
find_containing_triangle(this, points, point) ==
    LET holds(ii) ==
            pointPolygonTest(triangle_points(this.triangles[ii + 1], points),
                             point) >= 0
    IN  IF \E ii \in 0..(Len(this.triangles) - 1) : holds(ii)
        THEN CHOOSE ii \in 0..(Len(this.triangles) - 1) :
                /\ holds(ii)
                /\ \A jj \in 0..(ii - 1) : ~holds(jj)
        ELSE -1

\* Transformer::find_containing_triangle_in_ref()
find_containing_triangle_in_ref(this, point) ==
    find_containing_triangle(this, this.ref_corr_points, point)

\* Transformer::find_containing_triangle_in_robot()
find_containing_triangle_in_robot(this, point) ==
    find_containing_triangle(this, this.robot_corr_points, point)

\* Transformer::transform_to_ref_by_map_transform() with the translation
\* added before the scaling
translate_then_scale(this, point) ==
    LET moved == <<RAdd(point[1], this.robot_map_translation[1]),
                   RAdd(point[2], this.robot_map_translation[2])>>
        r == this.robot_map_rotation
        pre == <<RMul(moved[1], this.robot_map_scale[1]),
                 RMul(moved[2], this.robot_map_scale[2])>>
    IN  IF r # 0
        THEN <<RSub(RMul(Float(Cos(r)), pre[1]), RMul(Float(Sin(r)), pre[2])),
               RAdd(RMul(Float(Sin(r)), pre[1]), RMul(Float(Cos(r)), pre[2]))>>
        ELSE pre

\* Transformer::transform_to_ref_by_map_transform()
transform_to_ref_by_map_transform(this, point) ==
    LET r == this.robot_map_rotation
        pre == <<RMul(point[1], this.robot_map_scale[1]),
                 RMul(point[2], this.robot_map_scale[2])>>
        turned ==
            IF r # 0
            THEN <<RSub(RMul(Float(Cos(r)), pre[1]), RMul(Float(Sin(r)), pre[2])),
                   RAdd(RMul(Float(Sin(r)), pre[1]), RMul(Float(Cos(r)), pre[2]))>>
            ELSE pre
    IN  <<RAdd(turned[1], this.robot_map_translation[1]),
          RAdd(turned[2], this.robot_map_translation[2])>>

\* Transformer::transform_from_ref_by_map_transform()
transform_from_ref_by_map_transform(this, point) ==
    LET r == this.robot_map_rotation
        pre == <<RDiv(point[1], this.robot_map_scale[1]),
                 RDiv(point[2], this.robot_map_scale[2])>>
        turned ==
            IF r # 0
            THEN <<RSub(RMul(Float(Cos(-r)), pre[1]), RMul(Float(Sin(-r)), pre[2])),
                   RAdd(RMul(Float(Sin(-r)), pre[1]), RMul(Float(Cos(-r)), pre[2]))>>
            ELSE pre
    IN  <<RSub(turned[1], this.robot_map_translation[1]),
          RSub(turned[2], this.robot_map_translation[2])>>

\* transform.at<double>(0, 0) * point.first + ... : a 2x3 matrix on a point
Apply(transform, point) ==
    <<RAdd(RAdd(RMul(transform[1][1], point[1]), RMul(transform[1][2], point[2])),
           transform[1][3]),
      RAdd(RAdd(RMul(transform[2][1], point[1]), RMul(transform[2][2], point[2])),
           transform[2][3])>>

\* the outcome of reading a vector out of range
Undefined == [fault |-> "undefined", what |-> "out of range", value |-> <<>>]

\* Transformer::to_ref()
to_ref(this, point) ==
    LET transformed(corr_point_index, containing_triangle) ==
            IF corr_point_index >= 0
            THEN IF corr_point_index < Len(this.ref_corr_points)
                 THEN Returned(this.ref_corr_points[corr_point_index + 1])
                 ELSE Undefined
            ELSE IF OutOfRange(this, this.robot_corr_points)
            THEN Undefined
            ELSE IF containing_triangle < 0
            THEN Returned(transform_to_ref_by_map_transform(this, point))
            ELSE IF containing_triangle >= Len(this.to_ref_transforms)
            THEN Undefined
            ELSE Returned(Apply(this.to_ref_transforms[containing_triangle + 1],
                                point))
    IN  transformed(get_correspondence_point_index(point, this.robot_corr_points),
                    find_containing_triangle_in_robot(this, point))

\* Transformer::to_robot()
to_robot(this, point) ==
    LET transformed(corr_point_index, containing_triangle) ==
            IF corr_point_index >= 0
            THEN IF corr_point_index < Len(this.robot_corr_points)
                 THEN Returned(this.robot_corr_points[corr_point_index + 1])
                 ELSE Undefined
            ELSE IF OutOfRange(this, this.ref_corr_points)
            THEN Undefined
            ELSE IF containing_triangle < 0
            THEN Returned(transform_from_ref_by_map_transform(this, point))
            ELSE IF containing_triangle >= Len(this.to_robot_transforms)
            THEN Undefined
            ELSE Returned(Apply(this.to_robot_transforms[containing_triangle + 1],
                                point))
    IN  transformed(get_correspondence_point_index(point, this.ref_corr_points),
                    find_containing_triangle_in_ref(this, point))

---------------------------------------------------------------------------
(* The calls *)

\* what a caller sees of a call: the operation, its argument (<<>> for
\* none; for load, the Kind of the document), the argument of the query whose value was passed on as this
\* argument (<<>> for none), whether the instance was empty at the call, the
\* exception thrown ("none" for a normal return) and the value returned
\* (<<>> for none)
Seen(op, arg, from, this, r) ==
    [ op |-> op, arg |-> arg, from |-> from, empty_before |-> _empty(this),
      fault |-> r.fault, what |-> r.what, value |-> r.value ]

Init ==
    /\ transformer = Transformer
    /\ fresh = Transformer
    /\ result = Seen("Transformer", <<>>, <<>>, Transformer,
                     [fault |-> "none", what |-> "", value |-> <<>>])
    /\ fresh_result = result

\* load(yaml_doc) on the instance and on its twin
Load(yaml_doc, order) ==
    \E kind \in {Kind(yaml_doc)},
       r \in {load(transformer, yaml_doc, order)},
       f \in {load(fresh, yaml_doc, order)} :
        /\ transformer' = r.this
        /\ fresh' = f.this
        /\ result' = Seen("load", <<kind>>, <<>>, transformer,
                          [fault |-> r.fault, what |-> r.what, value |-> <<>>])
        /\ fresh_result' = Seen("load", <<kind>>, <<>>, fresh,
                          [fault |-> f.fault, what |-> f.what, value |-> <<>>])

\* reset() on the instance; its twin is constructed anew
Reset ==
    /\ transformer' = reset(transformer)
    /\ fresh' = Transformer
    /\ result' = Seen("reset", <<>>, <<>>, transformer,
                      [fault |-> "none", what |-> "", value |-> <<>>])
    /\ fresh_result' = Seen("reset", <<>>, <<>>, transformer,
                      [fault |-> "none", what |-> "", value |-> <<>>])

RefMapName ==
    /\ result' =
        Seen("ref_map_name", <<>>, <<>>, transformer,
             Returned(ref_map_name(transformer)))
    /\ fresh_result' =
        Seen("ref_map_name", <<>>, <<>>, fresh,
             Returned(ref_map_name(fresh)))
    /\ UNCHANGED <<transformer, fresh>>

RefMapImageFile ==
    /\ result' =
        Seen("ref_map_image_file", <<>>, <<>>, transformer,
             Returned(ref_map_image_file(transformer)))
    /\ fresh_result' =
        Seen("ref_map_image_file", <<>>, <<>>, fresh,
             Returned(ref_map_image_file(fresh)))
    /\ UNCHANGED <<transformer, fresh>>

RefMapSize ==
    /\ result' =
        Seen("ref_map_size", <<>>, <<>>, transformer,
             Returned(ref_map_size(transformer)))
    /\ fresh_result' =
        Seen("ref_map_size", <<>>, <<>>, fresh,
             Returned(ref_map_size(fresh)))
    /\ UNCHANGED <<transformer, fresh>>

RobotMapName ==
    /\ result' =
        Seen("robot_map_name", <<>>, <<>>, transformer,
             Returned(robot_map_name(transformer)))
    /\ fresh_result' =
        Seen("robot_map_name", <<>>, <<>>, fresh,
             Returned(robot_map_name(fresh)))
    /\ UNCHANGED <<transformer, fresh>>

RobotMapImageFile ==
    /\ result' =
        Seen("robot_map_image_file", <<>>, <<>>, transformer,
             Returned(robot_map_image_file(transformer)))
    /\ fresh_result' =
        Seen("robot_map_image_file", <<>>, <<>>, fresh,
             Returned(robot_map_image_file(fresh)))
    /\ UNCHANGED <<transformer, fresh>>

RobotMapSize ==
    /\ result' =
        Seen("robot_map_size", <<>>, <<>>, transformer,
             Returned(robot_map_size(transformer)))
    /\ fresh_result' =
        Seen("robot_map_size", <<>>, <<>>, fresh,
             Returned(robot_map_size(fresh)))
    /\ UNCHANGED <<transformer, fresh>>

RobotMapScale ==
    /\ result' =
        Seen("robot_map_scale", <<>>, <<>>, transformer,
             Returned(robot_map_scale(transformer)))
    /\ fresh_result' =
        Seen("robot_map_scale", <<>>, <<>>, fresh,
             Returned(robot_map_scale(fresh)))
    /\ UNCHANGED <<transformer, fresh>>

RobotMapRotation ==
    /\ result' =
        Seen("robot_map_rotation", <<>>, <<>>, transformer,
             Returned(robot_map_rotation(transformer)))
    /\ fresh_result' =
        Seen("robot_map_rotation", <<>>, <<>>, fresh,
             Returned(robot_map_rotation(fresh)))
    /\ UNCHANGED <<transformer, fresh>>

RobotMapTranslation ==
    /\ result' =
        Seen("robot_map_translation", <<>>, <<>>, transformer,
             Returned(robot_map_translation(transformer)))
    /\ fresh_result' =
        Seen("robot_map_translation", <<>>, <<>>, fresh,
             Returned(robot_map_translation(fresh)))
    /\ UNCHANGED <<transformer, fresh>>

RefMapCorrPoints ==
    /\ result' =
        Seen("ref_map_corr_points", <<>>, <<>>, transformer,
             Returned(ref_map_corr_points(transformer)))
    /\ fresh_result' =
        Seen("ref_map_corr_points", <<>>, <<>>, fresh,
             Returned(ref_map_corr_points(fresh)))
    /\ UNCHANGED <<transformer, fresh>>

RobotMapCorrPoints ==
    /\ result' =
        Seen("robot_map_corr_points", <<>>, <<>>, transformer,
             Returned(robot_map_corr_points(transformer)))
    /\ fresh_result' =
        Seen("robot_map_corr_points", <<>>, <<>>, fresh,
             Returned(robot_map_corr_points(fresh)))
    /\ UNCHANGED <<transformer, fresh>>

TriangleIndices ==
    /\ result' =
        Seen("triangle_indices", <<>>, <<>>, transformer,
             Returned(triangle_indices(transformer)))
    /\ fresh_result' =
        Seen("triangle_indices", <<>>, <<>>, fresh,
             Returned(triangle_indices(fresh)))
    /\ UNCHANGED <<transformer, fresh>>

BoundingBox ==
    /\ result' =
        Seen("bounding_box", <<>>, <<>>, transformer,
             Returned(bounding_box(transformer)))
    /\ fresh_result' =
        Seen("bounding_box", <<>>, <<>>, fresh,
             Returned(bounding_box(fresh)))
    /\ UNCHANGED <<transformer, fresh>>

\* a sequence with its i-th element moved to the front
MoveToFront(seq, i) ==
    <<seq[i]>> \o SubSeq(seq, 1, i - 1) \o SubSeq(seq, i + 1, Len(seq))

\* an instance whose triangle that holds a point of the robot map is moved
\* to the front of the list, its matrices with it, to be found first by the
\* next query
hit_first(this, point) ==
    LET k == find_containing_triangle_in_robot(this, point) + 1
    IN  IF OutOfRange(this, this.robot_corr_points) \/ k < 1
            \/ k > Len(this.to_ref_transforms) \/ k > Len(this.to_robot_transforms)
        THEN this
        ELSE [this EXCEPT
                !.triangles = MoveToFront(@, k),
                !.to_ref_transforms = MoveToFront(@, k),
                !.to_robot_transforms = MoveToFront(@, k)]

\* to_ref() keeping the triangle it found for the next query
ToRefKeepingHit(point) ==
    /\ result' =
        Seen("to_ref", <<point>>, <<>>, transformer,
             to_ref(transformer, point))
    /\ fresh_result' =
        Seen("to_ref", <<point>>, <<>>, fresh,
             to_ref(fresh, point))
    /\ transformer' = hit_first(transformer, point)
    /\ fresh' = hit_first(fresh, point)

ToRef(point) ==
    /\ result' =
        Seen("to_ref", <<point>>, <<>>, transformer,
             to_ref(transformer, point))
    /\ fresh_result' =
        Seen("to_ref", <<point>>, <<>>, fresh,
             to_ref(fresh, point))
    /\ UNCHANGED <<transformer, fresh>>

ToRobot(point) ==
    /\ result' =
        Seen("to_robot", <<point>>, <<>>, transformer,
             to_robot(transformer, point))
    /\ fresh_result' =
        Seen("to_robot", <<point>>, <<>>, fresh,
             to_robot(fresh, point))
    /\ UNCHANGED <<transformer, fresh>>

\* to_robot(to_ref(p)): the value the last call returned is passed back
ToRobotOfToRef ==
    /\ result.op = "to_ref" /\ result.from = <<>> /\ result.fault = "none"
    /\ result' =
        Seen("to_robot", result.value, result.arg, transformer,
             to_robot(transformer, result.value[1]))
    /\ fresh_result' =
        Seen("to_robot", result.value, result.arg, fresh,
             to_robot(fresh, result.value[1]))
    /\ UNCHANGED <<transformer, fresh>>

\* to_ref(to_robot(p))
ToRefOfToRobot ==
    /\ result.op = "to_robot" /\ result.from = <<>> /\ result.fault = "none"
    /\ result' =
        Seen("to_ref", result.value, result.arg, transformer,
             to_ref(transformer, result.value[1]))
    /\ fresh_result' =
        Seen("to_ref", result.value, result.arg, fresh,
             to_ref(fresh, result.value[1]))
    /\ UNCHANGED <<transformer, fresh>>

Next ==
    \/ \E yaml_doc \in Docs, order \in Orders : Load(yaml_doc, order)
    \/ Reset
    \/ RefMapName
    \/ RefMapImageFile
    \/ RefMapSize
    \/ RobotMapName
    \/ RobotMapImageFile
    \/ RobotMapSize
    \/ RobotMapScale
    \/ RobotMapRotation
    \/ RobotMapTranslation
    \/ RefMapCorrPoints
    \/ RobotMapCorrPoints
    \/ TriangleIndices
    \/ BoundingBox
    \/ \E point \in QueryPoints : ToRef(point)
    \/ \E point \in QueryPoints : ToRobot(point)
    \/ ToRobotOfToRef
    \/ ToRefOfToRobot

Spec == Init /\ [][Next]_vars

---------------------------------------------------------------------------
(* Documents of many sizes, translations and lists, each loaded into an    *)
(* instance that has not held data yet, and read back                      *)

\* a document with one pair of correspondence points, (0, 0) in both maps,
\* the given size nodes (<<>> for an absent key) and the given transform node
SizedDocument(ref_size, robot_size, transform) ==
    [Document(<<<<<<0, 0>>>>>>, <<<<<<0, 0>>>>>>, transform) EXCEPT
        !.ref_map.size = ref_size,
        !.robot_map.size = robot_size]

\* translations along one axis, for a reference map of 5 and a robot map of
\* 7: the robot map left of the reference map, touching it from the left,
\* over its origin, at it, touching it from the right and right of it
Shifts == {-7 - MaxShift, -7, -1, 0, 5, 5 + MaxShift}

OverlapDocs ==
    { SizedDocument(<<<<5, 5>>>>, <<<<7, 7>>>>,
                    <<[scale |-> sc, rotation |-> r, translation |-> <<tx, ty>>]>>) :
        tx \in Shifts, ty \in Shifts, sc \in {<<1, 1>>, <<2, 2>>}, r \in {0, 1} }

\* sizes that are absent, negative, zero or positive, without a transform and
\* with a translation to the upper left
SizeDocs ==
    { SizedDocument(ref_size, robot_size, transform) :
        ref_size \in {<<>>} \cup { <<<<w, h>>>> : w \in {-1, 0, 5}, h \in {-1, 0, 5} },
        robot_size \in {<<>>} \cup { <<<<w, h>>>> : w \in {-1, 0, 7}, h \in {-1, 0, 7} },
        transform \in {<<>>, <<[scale |-> <<1, 1>>, rotation |-> 0,
                                translation |-> <<-2, -2>>]>>} }

\* lists that are absent, empty, of one point and of two
ListDocs ==
    { Document(ref_points, robot_points, <<>>) :
        ref_points \in {<<>>, <<<<>>>>, <<<<<<0, 0>>>>>>, <<<<<<0, 0>>, <<3, 0>>>>>>},
        robot_points \in {<<>>, <<<<>>>>, <<<<<<0, 0>>>>>>, <<<<<<0, 0>>, <<3, 0>>>>>>} }

\* a size that is no float
HugeDocs == { SizedDocument(<<<<2^24 + 1, 5>>>>, <<<<7, 7>>>>, <<>>) }

\* one pair of points, each at the first or at the last pixel of its own
\* map, the robot map over the reference map, moved up and left by its own
\* size so that it touches the reference map at the origin, or moved right
\* and down to touch it at the far corner
InsideDocs ==
    { [SizedDocument(<<<<5, 5>>>>, <<<<7, 7>>>>,
                     <<[scale |-> <<1, 1>>, rotation |-> 0, translation |-> t]>>)
        EXCEPT !.ref_map.correspondence_points = <<<<rp>>>>,
               !.robot_map.correspondence_points = <<<<qp>>>>] :
        rp \in {<<0, 0>>, <<4, 4>>}, qp \in {<<0, 0>>, <<6, 6>>},
        t \in {<<-7, -7>>, <<0, 0>>, <<5, 5>>} }

WideDocs == Docs \cup OverlapDocs \cup SizeDocs \cup ListDocs \cup HugeDocs
                \cup InsideDocs

\* load(yaml_doc) on the instance, which is empty, the document kept with
\* the result; the twin has been given the same calls and is as the instance
LoadDocument(yaml_doc, order) ==
    /\ _empty(transformer)
    /\ \E kind \in {Kind(yaml_doc)},
          r \in {load(transformer, yaml_doc, order)} :
        /\ transformer' = r.this
        /\ fresh' = r.this
        /\ result' = Seen("load", <<kind, yaml_doc>>, <<>>, transformer,
                          [fault |-> r.fault, what |-> r.what, value |-> <<>>])
        /\ fresh_result' = result'

NextDocuments ==
    \/ \E yaml_doc \in WideDocs, order \in Orders : LoadDocument(yaml_doc, order)
    \/ RefMapName
    \/ RefMapImageFile
    \/ RefMapSize
    \/ RobotMapName
    \/ RobotMapImageFile
    \/ RobotMapSize
    \/ RobotMapScale
    \/ RobotMapRotation
    \/ RobotMapTranslation
    \/ RefMapCorrPoints
    \/ RobotMapCorrPoints
    \/ TriangleIndices
    \/ BoundingBox

SpecDocuments == Init /\ [][NextDocuments]_vars

---------------------------------------------------------------------------
(* Properties *)

\* the const member functions
Readers ==
    { "ref_map_name", "ref_map_image_file", "ref_map_size", "robot_map_name",
      "robot_map_image_file", "robot_map_size", "robot_map_scale",
      "robot_map_rotation", "robot_map_translation", "ref_map_corr_points",
      "robot_map_corr_points", "triangle_indices", "bounding_box", "to_ref",
      "to_robot" }

\* the last call was load() on an instance that was empty
LoadedWhenEmpty == result.op = "load" /\ result.empty_before

\* C1: on an instance that is not empty, load throws std::logic_error for
\* every document, one that cannot be parsed and one that is valid included,
\* and leaves every member as it was.
C1_LoadOnLoadedIsLogicError ==
    \A yaml_doc \in Docs, order \in Orders :
        ~_empty(transformer) =>
            load(transformer, yaml_doc, order) =
                Outcome(transformer, "logic_error",
                        "Transformer must be empty prior to calling load()")

\* load was called with a document that cannot be parsed on an instance that
\* holds triangles and matrices, and threw std::logic_error
C1_Witness ==
    /\ result.op = "load"
    /\ result.arg = <<"YAML">>
    /\ ~result.empty_before
    /\ result.fault = "logic_error"
    /\ transformer.triangles # <<>>
    /\ transformer.to_ref_transforms # <<>>

\* C2: on an empty instance every getter, bounding_box, to_ref and to_robot
\* throw std::logic_error.
C2_ReadersThrowWhenEmpty ==
    (result.op \in Readers /\ result.empty_before) =>
        result.fault = "logic_error"

\* C3: load is atomic: after load on an empty instance the instance is
\* loaded or it is still empty, also when the exception comes from the
\* triangulation.
C3_LoadIsAtomic ==
    LoadedWhenEmpty => (result.fault = "none" \/ _empty(transformer))

\* C4: a load on an empty instance that throws while parsing or validating
\* throws std::runtime_error and leaves the instance empty, and every
\* document that a new instance loads is then loaded by this one.
C4_InputFaultLeavesEmpty ==
    (LoadedWhenEmpty /\ result.arg # <<"">>) =>
        /\ result.fault = "runtime_error"
        /\ _empty(transformer)
        /\ \A yaml_doc \in Docs, order \in Orders :
            load(Transformer, yaml_doc, order).fault = "none" =>
                load(transformer, yaml_doc, order).fault = "none"

\* load on an empty instance threw for lists of different lengths
C4_Witness ==
    /\ LoadedWhenEmpty
    /\ result.arg = <<"Number of reference correspondence points and number of robot correspondence points do not match">>
    /\ result.fault = "runtime_error"

\* C5: after reset the instance and an instance constructed at that moment
\* give the same value or the same exception at every call of every
\* sequence of calls.
C5_ResetIsFresh == result = fresh_result

\* a query on an instance that was reset and still holds the matrices of an
\* earlier load, which its twin does not
C5_Witness ==
    /\ result.op = "to_ref"
    /\ result.empty_before
    /\ transformer.to_ref_transforms # <<>>
    /\ fresh.to_ref_transforms = <<>>
    /\ result = fresh_result

\* C6: load(d) right after reset() of an instance that was not empty leaves
\* the members, the triangles and both tables of matrices as load(d) leaves
\* those of a new instance.
C6_LoadAfterResetAsFresh ==
    [][(result.op = "reset" /\ ~result.empty_before /\ result'.op = "load")
        => transformer' = fresh']_vars

\* the smallest number of a set of numbers that is not empty
Smallest(S) == CHOOSE j \in S : \A k \in S : j <= k

\* the positions of a list of points that hold a point
Positions(points, point) == { j \in 1..Len(points) : points[j] = point }

\* C7 as stated: on a loaded instance to_ref(Q[i]) is R[i] and
\* to_robot(R[i]) is Q[i] for every index i of the two lists.
C7_CorrespondenceExact ==
    ~_empty(transformer) =>
        \A i \in 1..Len(transformer.robot_corr_points) :
            /\ to_ref(transformer, transformer.robot_corr_points[i]) =
                Returned(transformer.ref_corr_points[i])
            /\ to_robot(transformer, transformer.ref_corr_points[i]) =
                Returned(transformer.robot_corr_points[i])

\* C7 amended: on a loaded instance to_ref(Q[i]) is R[j] for the smallest j
\* with Q[j] = Q[i], and to_robot(R[i]) is Q[j] for the smallest j with
\* R[j] = R[i]; that is R[i], and Q[i], where the point does not repeat an
\* earlier one of its list.
C7_CorrespondenceFirstMatch ==
    ~_empty(transformer) =>
        \A i \in 1..Len(transformer.robot_corr_points) :
            /\ to_ref(transformer, transformer.robot_corr_points[i]) =
                Returned(transformer.ref_corr_points[
                    Smallest(Positions(transformer.robot_corr_points,
                                       transformer.robot_corr_points[i]))])
            /\ to_robot(transformer, transformer.ref_corr_points[i]) =
                Returned(transformer.robot_corr_points[
                    Smallest(Positions(transformer.ref_corr_points,
                                       transformer.ref_corr_points[i]))])

\* to_ref was called with a robot point that the list holds twice, paired
\* with two different reference points, and returned the first of them
C7_Witness ==
    /\ result.op = "to_ref"
    /\ \E i, j \in 1..Len(transformer.robot_corr_points) :
        /\ j < i
        /\ transformer.robot_corr_points[i] = result.arg[1]
        /\ transformer.robot_corr_points[j] = result.arg[1]
        /\ transformer.ref_corr_points[j] # transformer.ref_corr_points[i]
        /\ result.value = <<transformer.ref_corr_points[j]>>

\* no point of the list is the point, and no triangle taken in the list
\* holds it inside or on its border
GlobalOnly(points, point) ==
    /\ Positions(points, point) = {}
    /\ \A k \in 1..Len(transformer.triangles) :
        pointPolygonTest(triangle_points(transformer.triangles[k], points),
                         point) < 0

\* C8: a query point that is no correspondence point of the source map and
\* lies in no triangle of the source frame is scaled, then rotated, then
\* translated by to_ref; that is (sx * x + tx, sy * y + ty) without rotation
\* and p + t with unit scale too, where to_robot gives p - t.
C8_GlobalAffineOutside ==
    LET p == result.arg[1]
        s == transformer.robot_map_scale
        r == transformer.robot_map_rotation
        t == transformer.robot_map_translation
        x == RMul(s[1], p[1])
        y == RMul(s[2], p[2])
        turned ==
            <<RSub(RMul(Float(Cos(r)), x), RMul(Float(Sin(r)), y)),
              RAdd(RMul(Float(Sin(r)), x), RMul(Float(Cos(r)), y))>>
    IN  /\ (result.op = "to_ref" /\ GlobalOnly(transformer.robot_corr_points, p)) =>
            /\ result.value = <<<<RAdd(turned[1], t[1]), RAdd(turned[2], t[2])>>>>
            /\ r = 0 => result.value = <<<<RAdd(x, t[1]), RAdd(y, t[2])>>>>
            /\ (r = 0 /\ s = <<One, One>>) =>
                result.value = <<<<RAdd(p[1], t[1]), RAdd(p[2], t[2])>>>>
        /\ (/\ result.op = "to_robot"
            /\ GlobalOnly(transformer.ref_corr_points, p)
            /\ r = 0 /\ s = <<One, One>>) =>
                result.value = <<<<RSub(p[1], t[1]), RSub(p[2], t[2])>>>>

\* to_ref was called on an instance with triangles, a scale, a rotation and
\* a translation, with a point outside every triangle
C8_Witness ==
    /\ result.op = "to_ref"
    /\ transformer.triangles # <<>>
    /\ GlobalOnly(transformer.robot_corr_points, result.arg[1])
    /\ transformer.robot_map_scale = <<Float(2), Float(1)>>
    /\ transformer.robot_map_rotation # 0
    /\ transformer.robot_map_translation # <<Zero, Zero>>

\* C9: without rotation, to_robot of to_ref of a point gives the point back
\* when both use the map transform alone, for every scale that is not zero
\* and every translation.
C9_FallbackInverse ==
    (/\ result.op = "to_robot"
     /\ result.from # <<>>
     /\ transformer.robot_map_rotation = 0
     /\ GlobalOnly(transformer.robot_corr_points, result.from[1])
     /\ GlobalOnly(transformer.ref_corr_points, result.arg[1])) =>
        result.value = result.from

\* C10: on a loaded instance to_robot(to_ref(p)) is p for every point p
\* strictly inside a triangle taken in the robot frame.
C10_RoundTripInsideTriangle ==
    (/\ result.op = "to_robot"
     /\ result.from # <<>>
     /\ ~_empty(transformer)
     /\ \E k \in 1..Len(transformer.triangles) :
            pointPolygonTest(
                triangle_points(transformer.triangles[k],
                                transformer.robot_corr_points),
                result.from[1]) = 1) =>
        result.value = result.from

C19_TriangleIndicesValid ==
    \A k \in 1..Len(triangle_indices(transformer)) :
        LET t == triangle_indices(transformer)[k]
        IN  /\ t[1] # t[2] /\ t[1] # t[3] /\ t[2] # t[3]
            /\ \A i \in 1..3 :
                /\ 0 <= t[i]
                /\ t[i] < Len(ref_map_corr_points(transformer))
                /\ t[i] < Len(robot_map_corr_points(transformer))

\* a document of four pairs of points has been loaded and two triangles
\* have been made of them
C19_Witness ==
    /\ result.op = "load"
    /\ result.fault = "none"
    /\ Len(ref_map_corr_points(transformer)) = 4
    /\ Len(triangle_indices(transformer)) = 2

\* the midpoints that are vertices of a triangle of the list
VerticesOf(this) ==
    { calculate_correspondence_midpoints(this)[triangle_indices(this)[k][i] + 1] :
        k \in 1..Len(triangle_indices(this)), i \in 1..3 }

\* C20: after a load that succeeded, the midpoint of every pair of
\* correspondence points is a vertex of a triangle of the list.
C20_MidpointsAreVertices ==
    (result.op = "load" /\ result.fault = "none") =>
        \A i \in 1..Len(ref_map_corr_points(transformer)) :
            calculate_correspondence_midpoints(transformer)[i]
                \in VerticesOf(transformer)

\* C20, what happens instead: a document with one pair of points has been
\* loaded and no triangle has been made
C20_OnePairNoTriangle ==
    /\ result.op = "load"
    /\ result.fault = "none"
    /\ Len(ref_map_corr_points(transformer)) = 1
    /\ triangle_indices(transformer) = <<>>

\* C21: the table of matrices to the reference map and the table of
\* matrices to the robot map each hold as many entries as the list of
\* triangles, the k-th of them the matrix of the k-th triangle, and after
\* reset the list and both tables are empty.
C21_TablesFollowTriangles ==
    /\ Len(transformer.to_ref_transforms) = Len(transformer.triangles)
    /\ Len(transformer.to_robot_transforms) = Len(transformer.triangles)
    /\ \A k \in 1..Len(transformer.triangles) :
        /\ transformer.to_ref_transforms[k] =
            getAffineTransform(
                triangle_points(transformer.triangles[k], transformer.robot_corr_points),
                triangle_points(transformer.triangles[k], transformer.ref_corr_points))
        /\ transformer.to_robot_transforms[k] =
            getAffineTransform(
                triangle_points(transformer.triangles[k], transformer.ref_corr_points),
                triangle_points(transformer.triangles[k], transformer.robot_corr_points))
    /\ result.op = "reset" =>
        /\ transformer.triangles = <<>>
        /\ transformer.to_ref_transforms = <<>>
        /\ transformer.to_robot_transforms = <<>>

\* C21, the part of it that holds: while the instance holds triangles, each
\* table holds one entry for each of them, the k-th the matrix of the k-th
\* triangle.
C21_TablesFollowTrianglesWhileLoaded ==
    transformer.triangles # <<>> =>
        /\ Len(transformer.to_ref_transforms) = Len(transformer.triangles)
        /\ Len(transformer.to_robot_transforms) = Len(transformer.triangles)
        /\ \A k \in 1..Len(transformer.triangles) :
            /\ transformer.to_ref_transforms[k] =
                getAffineTransform(
                    triangle_points(transformer.triangles[k], transformer.robot_corr_points),
                    triangle_points(transformer.triangles[k], transformer.ref_corr_points))
            /\ transformer.to_robot_transforms[k] =
                getAffineTransform(
                    triangle_points(transformer.triangles[k], transformer.ref_corr_points),
                    triangle_points(transformer.triangles[k], transformer.robot_corr_points))

\* C21, what happens instead: after reset the list of triangles is empty and
\* the tables hold the matrices of the triangles there were
C21_TablesKeptByReset ==
    /\ result.op = "reset"
    /\ transformer.triangles = <<>>
    /\ Len(transformer.to_ref_transforms) = 2
    /\ Len(transformer.to_robot_transforms) = 2

\* C22: in every state reached by construction, load and reset the two lists
\* of correspondence points have the same length and neither component of
\* the scale is zero, and in every state where the instance is not empty
\* each list holds at least one point.
C22_ListsAndScaleValid ==
    /\ Len(transformer.ref_corr_points) = Len(transformer.robot_corr_points)
    /\ transformer.robot_map_scale[1] # Zero
    /\ transformer.robot_map_scale[2] # Zero
    /\ ~ _empty(transformer) =>
        /\ Len(transformer.ref_corr_points) >= 1
        /\ Len(transformer.robot_corr_points) >= 1

\* a load has filled the instance from a document with a scale other than
\* the one of an empty instance
C22_Witness ==
    /\ result.op = "load"
    /\ result.fault = "none"
    /\ ~ _empty(transformer)
    /\ transformer.robot_map_scale # <<One, One>>
    /\ Len(transformer.ref_corr_points) >= 1

\* the positions in the list of triangles of the triangles that, taken in
\* points, hold the point, their edges and vertices included
Holding(points, point) ==
    { k \in 1..Len(transformer.triangles) :
        pointPolygonTest(triangle_points(transformer.triangles[k], points),
                         point) >= 0 }

\* the lowest position of a set of positions
Lowest(positions) == CHOOSE k \in positions : \A other \in positions : k <= other

\* C24: for a query point that is no correspondence point of the source map,
\* the triangle used is the one at the lowest position of the list among
\* those that hold the point in the source frame, and the matrix applied is
\* the entry at that position of the table of the direction.
C24_LowestHoldingTriangle ==
    /\ (/\ result.op = "to_ref"
        /\ result.fault = "none"
        /\ find(transformer.robot_corr_points, result.arg[1]) < 0
        /\ Holding(transformer.robot_corr_points, result.arg[1]) # {}) =>
            result.value =
                <<Apply(transformer.to_ref_transforms[
                            Lowest(Holding(transformer.robot_corr_points, result.arg[1]))],
                        result.arg[1])>>
    /\ (/\ result.op = "to_robot"
        /\ result.fault = "none"
        /\ find(transformer.ref_corr_points, result.arg[1]) < 0
        /\ Holding(transformer.ref_corr_points, result.arg[1]) # {}) =>
            result.value =
                <<Apply(transformer.to_robot_transforms[
                            Lowest(Holding(transformer.ref_corr_points, result.arg[1]))],
                        result.arg[1])>>

\* to_ref has answered for a point that is no correspondence point and that
\* two triangles hold, whose matrices send it to different points
C24_Witness ==
    /\ result.op = "to_ref"
    /\ result.fault = "none"
    /\ find(transformer.robot_corr_points, result.arg[1]) < 0
    /\ \E k, l \in Holding(transformer.robot_corr_points, result.arg[1]) :
        /\ k < l
        /\ Apply(transformer.to_ref_transforms[k], result.arg[1]) #
            Apply(transformer.to_ref_transforms[l], result.arg[1])

\* the instance with the k-th triangle moved to the front of the list and
\* the k-th matrix of each table with it: the list and the tables permuted
\* alike
Permuted(k) ==
    [transformer EXCEPT
        !.triangles = MoveToFront(@, k),
        !.to_ref_transforms = MoveToFront(@, k),
        !.to_robot_transforms = MoveToFront(@, k)]

\* C25: the order of the triangles does not matter: with the list of
\* triangles permuted, and the tables permuted alike, to_ref and to_robot
\* return the same point for every query point.
C25_OrderNotSignificant ==
    (/\ result.op \in {"to_ref", "to_robot"}
     /\ result.from = <<>>
     /\ result.fault = "none"
     /\ Len(transformer.to_ref_transforms) = Len(transformer.triangles)
     /\ Len(transformer.to_robot_transforms) = Len(transformer.triangles)) =>
        \A k \in 1..Len(transformer.triangles) :
            /\ result.op = "to_ref" =>
                to_ref(Permuted(k), result.arg[1]).value = result.value
            /\ result.op = "to_robot" =>
                to_robot(Permuted(k), result.arg[1]).value = result.value

\* C25, what happens instead: with the reference points (0,0), (3,0), (0,3),
\* (0,0) and the robot points (0,0), (3,0), (0,3), (6,6) the triangles
\* (0,1,2) and (1,2,3) are one triangle in the reference map; to_robot has
\* sent (1,1) to (1,1) by the first, and with the second moved to the front
\* it sends it to (3,3)
C25_OrderSignificant ==
    /\ result.op = "to_robot"
    /\ result.from = <<>>
    /\ result.fault = "none"
    /\ transformer.triangles = <<<<0, 1, 2>>, <<1, 2, 3>>>>
    /\ Len(transformer.to_robot_transforms) = 2
    /\ result.arg = <<FloatPair(<<1, 1>>)>>
    /\ result.value = <<FloatPair(<<1, 1>>)>>
    /\ to_robot(Permuted(2), result.arg[1]).value = <<FloatPair(<<3, 3>>)>>

\* the indices of the corners of the k-th triangle
CornersAt(k) ==
    { transformer.triangles[k][1], transformer.triangles[k][2],
      transformer.triangles[k][3] }

\* the point halfway between two points
Halfway(p, q) ==
    <<RDiv(RAdd(p[1], q[1]), <<2, 1>>), RDiv(RAdd(p[2], q[2]), <<2, 1>>)>>

\* the k-th and the l-th matrix of a table send both ends and the middle of
\* every edge their triangles share, taken in points, to the same points
AgreeOnSharedEdges(table, points, k, l) ==
    \A a, b \in CornersAt(k) \cap CornersAt(l) :
        (a # b /\ points[a + 1] # points[b + 1]) =>
            \A p \in { points[a + 1], points[b + 1],
                       Halfway(points[a + 1], points[b + 1]) } :
                Apply(table[k], p) = Apply(table[l], p)

\* the tables hold a matrix for each triangle and each triangle names points
\* the lists hold
TablesInStep ==
    /\ Len(transformer.to_ref_transforms) = Len(transformer.triangles)
    /\ Len(transformer.to_robot_transforms) = Len(transformer.triangles)
    /\ ~ OutOfRange(transformer, transformer.ref_corr_points)
    /\ ~ OutOfRange(transformer, transformer.robot_corr_points)

\* C26: the transformation is continuous across edges: for a point on an
\* edge two triangles share in the source frame, the matrices of the two
\* triangles give the same point.
C26_ContinuousAcrossEdges ==
    TablesInStep =>
        \A k, l \in 1..Len(transformer.triangles) :
            /\ AgreeOnSharedEdges(transformer.to_ref_transforms,
                                  transformer.robot_corr_points, k, l)
            /\ AgreeOnSharedEdges(transformer.to_robot_transforms,
                                  transformer.ref_corr_points, k, l)

\* the three points are on one line or two of them are one point
Collinear(tri) == Orient(tri[1], tri[2], tri[3]) = 0

\* C26, the part of it that holds: two triangles neither of which is
\* degenerate in the source frame give the same point on an edge they share
C26_ContinuousAcrossProperEdges ==
    TablesInStep =>
        \A k, l \in 1..Len(transformer.triangles) :
            /\ (/\ ~ Collinear(triangle_points(transformer.triangles[k],
                                               transformer.robot_corr_points))
                /\ ~ Collinear(triangle_points(transformer.triangles[l],
                                               transformer.robot_corr_points))) =>
                    AgreeOnSharedEdges(transformer.to_ref_transforms,
                                       transformer.robot_corr_points, k, l)
            /\ (/\ ~ Collinear(triangle_points(transformer.triangles[k],
                                               transformer.ref_corr_points))
                /\ ~ Collinear(triangle_points(transformer.triangles[l],
                                               transformer.ref_corr_points))) =>
                    AgreeOnSharedEdges(transformer.to_robot_transforms,
                                       transformer.ref_corr_points, k, l)

\* C26, what happens instead: two triangles share an edge with two ends in
\* the robot map, one of them is degenerate there and stored with the zero
\* matrix, and the two matrices send the middle of the edge to different
\* points
C26_BreakAtDegenerateTriangle ==
    /\ TablesInStep
    /\ \E k, l \in 1..Len(transformer.triangles) :
        /\ Collinear(triangle_points(transformer.triangles[k],
                                     transformer.robot_corr_points))
        /\ ~ Collinear(triangle_points(transformer.triangles[l],
                                       transformer.robot_corr_points))
        /\ ~ AgreeOnSharedEdges(transformer.to_ref_transforms,
                                transformer.robot_corr_points, k, l)

\* three points that are not on one line: two matrices that agree on them
\* agree on the whole plane
Frame == { <<Zero, Zero>>, <<One, Zero>>, <<Zero, One>> }

\* each of the two matrices undoes the other
Inverse(to_ref_matrix, to_robot_matrix) ==
    \A p \in Frame :
        /\ Apply(to_robot_matrix, Apply(to_ref_matrix, p)) = p
        /\ Apply(to_ref_matrix, Apply(to_robot_matrix, p)) = p

\* the k-th matrix to the reference map sends the robot points of the k-th
\* triangle to its reference points, the k-th matrix to the robot map sends
\* them back, and each undoes the other
ExactOnTriangle(k) ==
    /\ \A i \in 1..3 :
        /\ Apply(transformer.to_ref_transforms[k],
                 transformer.robot_corr_points[transformer.triangles[k][i] + 1]) =
            transformer.ref_corr_points[transformer.triangles[k][i] + 1]
        /\ Apply(transformer.to_robot_transforms[k],
                 transformer.ref_corr_points[transformer.triangles[k][i] + 1]) =
            transformer.robot_corr_points[transformer.triangles[k][i] + 1]
    /\ Inverse(transformer.to_ref_transforms[k], transformer.to_robot_transforms[k])

\* C27: for every triangle (a, b, c) of a loaded instance the stored matrix
\* to the reference map sends Q[a], Q[b], Q[c] to R[a], R[b], R[c], the
\* stored matrix to the robot map sends R[a], R[b], R[c] to Q[a], Q[b], Q[c],
\* and the two are inverse to each other on the whole plane.
C27_MatricesExactAndInverse ==
    TablesInStep =>
        \A k \in 1..Len(transformer.triangles) : ExactOnTriangle(k)

\* C27, the part of it that holds: so it is for every triangle that is
\* degenerate in neither map
C27_ProperMatricesExactAndInverse ==
    TablesInStep =>
        \A k \in 1..Len(transformer.triangles) :
            (/\ ~ Collinear(triangle_points(transformer.triangles[k],
                                            transformer.ref_corr_points))
             /\ ~ Collinear(triangle_points(transformer.triangles[k],
                                            transformer.robot_corr_points))) =>
                ExactOnTriangle(k)

\* C27, what happens instead: a loaded instance holds a triangle that is
\* degenerate in the robot map, stored with the zero matrix to the reference
\* map, which sends a corner to (0, 0) and not to its reference point
C27_ZeroMatrixStored ==
    /\ result.op = "load"
    /\ result.fault = "none"
    /\ TablesInStep
    /\ \E k \in 1..Len(transformer.triangles) :
        /\ Collinear(triangle_points(transformer.triangles[k],
                                     transformer.robot_corr_points))
        /\ \A p \in Frame :
            Apply(transformer.to_ref_transforms[k], p) = <<Zero, Zero>>
        /\ \E v \in CornersAt(k) :
            /\ transformer.ref_corr_points[v + 1] # <<Zero, Zero>>
            /\ Apply(transformer.to_ref_transforms[k],
                     transformer.robot_corr_points[v + 1]) = <<Zero, Zero>>

\* C28: a degenerate triangle is a fatal error: if the robot points or the
\* reference points of a triangle of the triangulation of the midpoints are
\* on one line or coincide, load fails and stores no matrix for it.
C28_DegenerateTriangleFatal ==
    (result.op = "load" /\ result.fault = "none") =>
        \A k \in 1..Len(transformer.triangles) :
            /\ ~ Collinear(triangle_points(transformer.triangles[k],
                                           transformer.robot_corr_points))
            /\ ~ Collinear(triangle_points(transformer.triangles[k],
                                           transformer.ref_corr_points))

\* C28, what happens instead: load has returned without an exception and
\* the instance holds a triangle whose reference points are three different
\* points and whose robot points are not, with a matrix in each table
C28_DegenerateTriangleStored ==
    /\ result.op = "load"
    /\ result.fault = "none"
    /\ TablesInStep
    /\ \E k \in 1..Len(transformer.triangles) :
        /\ ~ Collinear(triangle_points(transformer.triangles[k],
                                       transformer.ref_corr_points))
        /\ Cardinality({ transformer.robot_corr_points[v + 1] : v \in CornersAt(k) }) = 2
        /\ transformer.to_ref_transforms[k] =
            getAffineTransform(
                triangle_points(transformer.triangles[k], transformer.robot_corr_points),
                triangle_points(transformer.triangles[k], transformer.ref_corr_points))

\* a list of points holds a point more than once
Repeats(points) ==
    \E i, j \in 1..Len(points) : i < j /\ points[i] = points[j]

\* the documents one of whose lists holds a point more than once
RepeatingDocs ==
    { yaml_doc \in GeometryDocs :
        \/ Repeats(yaml_doc.ref_map.correspondence_points[1])
        \/ Repeats(yaml_doc.robot_map.correspondence_points[1]) }

\* C30: documents with repeated correspondence points are accepted, and
\* every lookup by equality resolves to the lowest matching index: to_ref(p)
\* returns R[i] for the smallest i with Q[i] = p, to_robot(p) returns Q[i]
\* for the smallest i with R[i] = p, and a corner of a triangle is indexed
\* with the smallest i whose midpoint M[i] is the corner.
C30_LowestMatchingIndex ==
    /\ \A yaml_doc \in RepeatingDocs : Kind(yaml_doc) = ""
    /\ (/\ result.op = "to_ref"
        /\ Positions(transformer.robot_corr_points, result.arg[1]) # {}) =>
            /\ result.fault = "none"
            /\ result.value =
                <<transformer.ref_corr_points[
                    Smallest(Positions(transformer.robot_corr_points, result.arg[1]))]>>
    /\ (/\ result.op = "to_robot"
        /\ Positions(transformer.ref_corr_points, result.arg[1]) # {}) =>
            /\ result.fault = "none"
            /\ result.value =
                <<transformer.robot_corr_points[
                    Smallest(Positions(transformer.ref_corr_points, result.arg[1]))]>>
    /\ TablesInStep =>
        \A k \in 1..Len(transformer.triangles) :
            \A v \in CornersAt(k) :
                v + 1 = Smallest(Positions(
                            calculate_correspondence_midpoints(transformer),
                            calculate_correspondence_midpoints(transformer)[v + 1]))

\* to_robot was called with a reference point that the list holds at the
\* first and at the fourth place, on an instance with two triangles, and
\* returned the first robot point, which is not the fourth
C30_Witness ==
    /\ result.op = "to_robot"
    /\ result.fault = "none"
    /\ Len(transformer.triangles) >= 2
    /\ Positions(transformer.ref_corr_points, result.arg[1]) = {1, 4}
    /\ transformer.robot_corr_points[4] # transformer.robot_corr_points[1]
    /\ result.value = <<transformer.robot_corr_points[1]>>

---------------------------------------------------------------------------
(* Properties of the documents, under SpecDocuments *)

\* the number of points of a list node of a document, none for an absent key
ListLength(node) == IF IsDefined(node) THEN Len(node[1]) ELSE 0

\* a document is well formed and holds both names and both sizes
Parses(yaml_doc) == parse_document(yaml_doc).fault = "none"

\* C11: load of a document whose reference list of correspondence points is
\* empty or absent, whose robot list is empty or absent, or whose two lists
\* differ in length throws a std::runtime_error and leaves the instance empty.
C11_PointListFaults ==
    result.op = "load" =>
        LET nr == ListLength(result.arg[2].ref_map.correspondence_points)
            nq == ListLength(result.arg[2].robot_map.correspondence_points)
        IN  (nr = 0 \/ nq = 0 \/ nr # nq) =>
                /\ result.fault = "runtime_error"
                /\ _empty(transformer)

\* a document with one reference point and two robot points has been refused
C11_Witness ==
    /\ result.op = "load"
    /\ ListLength(result.arg[2].ref_map.correspondence_points) = 1
    /\ ListLength(result.arg[2].robot_map.correspondence_points) = 2
    /\ result.fault = "runtime_error"
    /\ result.what = "Number of reference correspondence points and number of robot correspondence points do not match"
    /\ _empty(transformer)

\* the scale of a document's transform is zero in an axis
ZeroScale(yaml_doc) ==
    /\ IsDefined(yaml_doc.robot_map.transform)
    /\ \/ yaml_doc.robot_map.transform[1].scale[1] = 0
       \/ yaml_doc.robot_map.transform[1].scale[2] = 0

\* C12: load of a document whose scale is zero in x, in y or in both throws
\* a std::runtime_error and leaves the instance empty.
C12_ZeroScaleFault ==
    (result.op = "load" /\ ZeroScale(result.arg[2])) =>
        /\ result.fault = "runtime_error"
        /\ _empty(transformer)

\* a document whose scale is zero in y alone has been refused for its scale
C12_Witness ==
    /\ result.op = "load"
    /\ ZeroScale(result.arg[2])
    /\ result.arg[2].robot_map.transform[1].scale[1] # 0
    /\ result.fault = "runtime_error"
    /\ result.what = "Invalid scale value: 0"
    /\ _empty(transformer)

\* the interval [lo1, hi1] and the interval [lo2, hi2] have no point in common
Apart(lo1, hi1, lo2, hi2) == Max(lo1, lo2) > Min(hi1, hi2)

\* the translation of a document, (0, 0) without a transform
TranslationOf(yaml_doc) ==
    IF IsDefined(yaml_doc.robot_map.transform)
    THEN yaml_doc.robot_map.transform[1].translation
    ELSE <<0, 0>>

\* the rectangle of the reference map and the rectangle of the robot map
\* moved by the translation have no point in common
EmptyIntersection(yaml_doc) ==
    LET ref == yaml_doc.ref_map.size[1]
        robot == yaml_doc.robot_map.size[1]
        t == TranslationOf(yaml_doc)
    IN  \/ Apart(0, ref[1], t[1], t[1] + robot[1])
        \/ Apart(0, ref[2], t[2], t[2] + robot[2])

\* a document passes every check of the validator but the one of the
\* overlap: it parses, its sizes are positive, its lists are of one length
\* that is not zero, its scale is not zero and its image files, if any, are
\* images of the sizes it gives
PassesOtherChecks(yaml_doc) ==
    /\ Parses(yaml_doc)
    /\ \A k \in 1..2 :
        yaml_doc.ref_map.size[1][k] > 0 /\ yaml_doc.robot_map.size[1][k] > 0
    /\ ListLength(yaml_doc.ref_map.correspondence_points) > 0
    /\ ListLength(yaml_doc.ref_map.correspondence_points) =
            ListLength(yaml_doc.robot_map.correspondence_points)
    /\ ~ZeroScale(yaml_doc)
    /\ IsDefined(yaml_doc.ref_map.image_file) =>
            imread(yaml_doc.ref_map.image_file[1]) = yaml_doc.ref_map.size[1]
    /\ IsDefined(yaml_doc.robot_map.image_file) =>
            imread(yaml_doc.robot_map.image_file[1]) = yaml_doc.robot_map.size[1]

\* C13: a document that passes every other check is refused with a
\* std::runtime_error exactly if the rectangle [0, W_ref] x [0, H_ref] and the
\* rectangle [tx, tx + W_robot] x [ty, ty + H_robot] have no point in common,
\* whatever its scale and rotation are.
C13_RefusedIffApart ==
    (result.op = "load" /\ PassesOtherChecks(result.arg[2])) =>
        (result.fault = "runtime_error" <=> EmptyIntersection(result.arg[2]))

\* a document scaled by 2 and turned by a quarter, whose robot map lies left
\* of the reference map as it is and would reach into it if scaled, has been refused
C13_Witness ==
    /\ result.op = "load"
    /\ PassesOtherChecks(result.arg[2])
    /\ IsDefined(result.arg[2].robot_map.transform)
    /\ result.arg[2].robot_map.transform[1].scale = <<2, 2>>
    /\ result.arg[2].robot_map.transform[1].rotation = 1
    /\ TranslationOf(result.arg[2])[1] < -7
    /\ TranslationOf(result.arg[2])[2] = 0
    /\ result.fault = "runtime_error"
    /\ result.what = "Reference map and robot map do not overlap"

\* a document whose robot map touches the reference map from the right has
\* been loaded
C13_WitnessTouching ==
    /\ result.op = "load"
    /\ PassesOtherChecks(result.arg[2])
    /\ TranslationOf(result.arg[2]) = <<5, 5>>
    /\ result.fault = "none"

\* a size node is absent or holds a dimension that is not positive
NoPositiveSize(size) ==
    ~IsDefined(size) \/ size[1][1] <= 0 \/ size[1][2] <= 0

\* C14: load of a document in which the size of a map is absent, zero or
\* negative in a dimension throws a std::runtime_error and leaves the
\* instance empty.
C14_SizesPresentAndPositive ==
    (/\ result.op = "load"
     /\ \/ NoPositiveSize(result.arg[2].ref_map.size)
        \/ NoPositiveSize(result.arg[2].robot_map.size)) =>
        /\ result.fault = "runtime_error"
        /\ _empty(transformer)

\* C14, the part of it that holds: load of a document in which the size of a
\* map is absent throws a std::runtime_error and leaves the instance empty.
C14_SizesPresent ==
    (/\ result.op = "load"
     /\ \/ ~IsDefined(result.arg[2].ref_map.size)
        \/ ~IsDefined(result.arg[2].robot_map.size)) =>
        /\ result.fault = "runtime_error"
        /\ _empty(transformer)

\* C14, what happens instead: a document whose robot map has the size (0, 0)
\* has been loaded
C14_ZeroSizeLoaded ==
    /\ result.op = "load"
    /\ result.arg[2].ref_map.size = <<<<5, 5>>>>
    /\ result.arg[2].robot_map.size = <<<<0, 0>>>>
    /\ result.fault = "none"
    /\ robot_map_size(transformer) = <<Zero, Zero>>

\* C14, what happens instead: a document whose reference map has a negative
\* size has been loaded
C14_NegativeSizeLoaded ==
    /\ result.op = "load"
    /\ result.arg[2].ref_map.size = <<<<-1, -1>>>>
    /\ result.fault = "none"

\* the getters
Getters ==
    { "ref_map_name", "ref_map_image_file", "ref_map_size", "robot_map_name",
      "robot_map_image_file", "robot_map_size", "robot_map_scale",
      "robot_map_rotation", "robot_map_translation", "ref_map_corr_points",
      "robot_map_corr_points" }

\* what a getter returns on an instance
Get(op, this) ==
    CASE op = "ref_map_name" -> ref_map_name(this)
      [] op = "ref_map_image_file" -> ref_map_image_file(this)
      [] op = "ref_map_size" -> ref_map_size(this)
      [] op = "robot_map_name" -> robot_map_name(this)
      [] op = "robot_map_image_file" -> robot_map_image_file(this)
      [] op = "robot_map_size" -> robot_map_size(this)
      [] op = "robot_map_scale" -> robot_map_scale(this)
      [] op = "robot_map_rotation" -> robot_map_rotation(this)
      [] op = "robot_map_translation" -> robot_map_translation(this)
      [] op = "ref_map_corr_points" -> ref_map_corr_points(this)
      [] op = "robot_map_corr_points" -> robot_map_corr_points(this)

\* an integer of a document as the number it is, and a pair of them
Exact(i) == <<i, 1>>

ExactPair(v) == <<Exact(v[1]), Exact(v[2])>>

\* the list of a list node of a document, point by point in its order
ExactPoints(node) ==
    IF IsDefined(node) THEN [i \in 1..Len(node[1]) |-> ExactPair(node[1][i])]
    ELSE <<>>

\* the value a document that parses gives for what a getter returns, with
\* the scale (1, 1), the rotation 0 and the translation (0, 0) for an absent
\* transform and the empty string for an absent image_file
DocumentValue(op, yaml_doc) ==
    LET ref == yaml_doc.ref_map
        robot == yaml_doc.robot_map
        transform ==
            IF IsDefined(robot.transform) THEN robot.transform[1]
            ELSE [scale |-> <<1, 1>>, rotation |-> 0, translation |-> <<0, 0>>]
    IN  CASE op = "ref_map_name" -> ref.name[1]
          [] op = "ref_map_image_file" ->
                IF IsDefined(ref.image_file) THEN ref.image_file[1] ELSE ""
          [] op = "ref_map_size" -> ExactPair(ref.size[1])
          [] op = "robot_map_name" -> robot.name[1]
          [] op = "robot_map_image_file" ->
                IF IsDefined(robot.image_file) THEN robot.image_file[1] ELSE ""
          [] op = "robot_map_size" -> ExactPair(robot.size[1])
          [] op = "robot_map_scale" -> ExactPair(transform.scale)
          [] op = "robot_map_rotation" -> transform.rotation
          [] op = "robot_map_translation" -> ExactPair(transform.translation)
          [] op = "ref_map_corr_points" -> ExactPoints(ref.correspondence_points)
          [] op = "robot_map_corr_points" -> ExactPoints(robot.correspondence_points)

\* the integers of a document that parses
IntegersOf(yaml_doc) ==
    LET ref == yaml_doc.ref_map
        robot == yaml_doc.robot_map
        pair(v) == {v[1], v[2]}
        points(node) ==
            IF IsDefined(node)
            THEN UNION { pair(node[1][i]) : i \in 1..Len(node[1]) }
            ELSE {}
    IN  pair(ref.size[1]) \cup pair(robot.size[1])
            \cup (IF IsDefined(robot.transform)
                  THEN pair(robot.transform[1].scale)
                            \cup pair(robot.transform[1].translation)
                  ELSE {})
            \cup points(ref.correspondence_points)
            \cup points(robot.correspondence_points)

\* C15 as the spec has it: after a load that succeeded every getter returns
\* the value of the document, the defaults for an absent transform and an
\* absent image_file.
C15_GettersReturnDocument ==
    (result.op = "load" /\ result.fault = "none") =>
        \A op \in Getters : Get(op, transformer) = DocumentValue(op, result.arg[2])

\* a float is one nearest to an integer
NearestTo(float, i) ==
    /\ float[2] = 1
    /\ float[1] % Ulp(Abs(i)) = 0
    /\ 2 * Abs(float[1] - i) <= Ulp(Abs(i))

\* a pair of floats are the nearest to the integers of an exact pair
NearestPair(got, exact) ==
    \A k \in 1..2 : NearestTo(got[k], exact[k][1])

\* a list of pairs of floats are the nearest to those of a list of exact pairs
NearestPoints(got, exact) ==
    /\ Len(got) = Len(exact)
    /\ \A i \in 1..Len(exact) : NearestPair(got[i], exact[i])

\* C15, amended: after a load that succeeded the getters of the names, the
\* image files and the rotation return the values of the document, with the
\* defaults for what is absent, and the getters of the sizes, the scale, the
\* translation and the points return for each integer of the document the
\* float nearest to it: the integer itself if its magnitude is 2^24 or less.
C15_GettersReturnDocumentAsFloat ==
    (result.op = "load" /\ result.fault = "none") =>
        /\ (\A i \in IntegersOf(result.arg[2]) : Abs(i) <= 2^24) =>
            \A op \in Getters :
                Get(op, transformer) = DocumentValue(op, result.arg[2])
        /\ \A op \in {"ref_map_name", "ref_map_image_file", "robot_map_name",
                      "robot_map_image_file", "robot_map_rotation"} :
                Get(op, transformer) = DocumentValue(op, result.arg[2])
        /\ \A op \in {"ref_map_size", "robot_map_size", "robot_map_scale",
                      "robot_map_translation"} :
                NearestPair(Get(op, transformer),
                            DocumentValue(op, result.arg[2]))
        /\ \A op \in {"ref_map_corr_points", "robot_map_corr_points"} :
                NearestPoints(Get(op, transformer),
                              DocumentValue(op, result.arg[2]))

\* a document with an image file for the reference map alone and without a
\* transform has been loaded, and the getters give the path, the empty
\* string and the identity
C15_Witness ==
    /\ result.op = "load"
    /\ result.fault = "none"
    /\ ~IsDefined(result.arg[2].robot_map.transform)
    /\ ~IsDefined(result.arg[2].robot_map.image_file)
    /\ ref_map_image_file(transformer) = "ref.png"
    /\ robot_map_image_file(transformer) = ""
    /\ robot_map_scale(transformer) = <<One, One>>
    /\ robot_map_rotation(transformer) = 0
    /\ robot_map_translation(transformer) = <<Zero, Zero>>
    /\ Len(ref_map_corr_points(transformer)) = 3

\* the integer a float of the instance holds
Integer(float) == float[1] \div float[2]

CornersOf(box) ==
    { <<box[1][1], box[1][2]>>, <<box[2][1], box[1][2]>>,
      <<box[1][1], box[2][2]>>, <<box[2][1], box[2][2]>> }

\* a rectangle holds the reference map and the robot map moved by the
\* translation
HoldsBothMaps(box, this) ==
    \A k \in 1..2 :
        /\ RLe(box[1][k], Zero)
        /\ RLe(this.ref_map_size[k], box[2][k])
        /\ RLe(box[1][k], this.robot_map_translation[k])
        /\ RLe(RAdd(this.robot_map_translation[k], this.robot_map_size[k]),
               box[2][k])

\* C17: on an instance that holds data, the rectangle bounding_box returns
\* has a corner at (0, 0) and holds the reference map and the robot map moved
\* by the translation.
C17_CornerAtOrigin ==
    (result.op = "bounding_box" /\ ~_empty(transformer)) =>
        /\ <<Zero, Zero>> \in CornersOf(result.value[1])
        /\ HoldsBothMaps(result.value[1], transformer)

\* C17, the part of it that holds: the rectangle holds both maps, for sizes
\* that are not negative.
C17_HoldsBothMaps ==
    (/\ result.op = "bounding_box"
     /\ ~_empty(transformer)
     /\ \A k \in 1..2 : /\ RLe(Zero, transformer.ref_map_size[k])
                        /\ RLe(Zero, transformer.robot_map_size[k])) =>
        HoldsBothMaps(result.value[1], transformer)

\* C17, what happens instead: with the translation (-1, -1) the rectangle
\* reaches from (-1, -1) to (6, 6)
C17_NoCornerAtOrigin ==
    /\ result.op = "bounding_box"
    /\ robot_map_translation(transformer) = ExactPair(<<-1, -1>>)
    /\ result.value = <<<<ExactPair(<<-1, -1>>), ExactPair(<<6, 6>>)>>>>

\* the fault the validator would report if it looked at the lists, then at
\* the scale, then at the overlap, then at the image files
FirstInStatedOrder(this) ==
    IF validate_corr_points(this) # "" THEN validate_corr_points(this)
    ELSE IF validate_scale(this) # "" THEN validate_scale(this)
    ELSE IF validate_overlap(this) # "" THEN validate_overlap(this)
    ELSE validate_image_files(this)

\* both sizes of a document are positive
PositiveSizes(yaml_doc) ==
    \A k \in 1..2 :
        yaml_doc.ref_map.size[1][k] > 0 /\ yaml_doc.robot_map.size[1][k] > 0

\* C23: validation reports one fault, the first that fails in the order:
\* lists not empty, lists of one length, sizes positive, scale not zero,
\* rectangles overlap, image files; a document with a zero scale whose
\* rectangles do not overlap is refused for its scale.
C23_FirstFaultInStatedOrder ==
    (/\ result.op = "load"
     /\ Parses(result.arg[2])
     /\ PositiveSizes(result.arg[2])
     /\ FirstInStatedOrder(parse_document(result.arg[2]).loaded) # "") =>
        /\ result.fault = "runtime_error"
        /\ result.what = FirstInStatedOrder(parse_document(result.arg[2]).loaded)

\* C23, the part of it that holds: a document that fails a check is refused
\* with one std::runtime_error, the instance left empty, and a document
\* that fails one check alone is refused with the message of that check.
C23_OneFault ==
    (/\ result.op = "load"
     /\ Parses(result.arg[2])
     /\ FirstInStatedOrder(parse_document(result.arg[2]).loaded) # "") =>
        /\ result.fault = "runtime_error"
        /\ _empty(transformer)
        /\ result.what \in
            { validate_corr_points(parse_document(result.arg[2]).loaded),
              validate_scale(parse_document(result.arg[2]).loaded),
              validate_overlap(parse_document(result.arg[2]).loaded),
              validate_image_files(parse_document(result.arg[2]).loaded) } \ {""}

\* C23, what happens instead: a document with a zero scale whose rectangles
\* do not overlap has been refused for the overlap
C23_ZeroScaleReportedAsApart ==
    /\ result.op = "load"
    /\ ZeroScale(result.arg[2])
    /\ EmptyIntersection(result.arg[2])
    /\ result.fault = "runtime_error"
    /\ result.what = "Reference map and robot map do not overlap"

\* every point of a list of a document lies inside a map of the given size:
\* 0 <= x < W and 0 <= y < H
InsideMap(points, size) ==
    \A i \in 1..Len(points) :
        /\ 0 <= points[i][1] /\ points[i][1] < size[1]
        /\ 0 <= points[i][2] /\ points[i][2] < size[2]

\* the far corner of the rectangle the subdivision of a document is made
\* for: (max(W_ref, W_robot + tx), max(H_ref, H_robot + ty))
SeedCorner(yaml_doc) ==
    <<Max(yaml_doc.ref_map.size[1][1],
          yaml_doc.robot_map.size[1][1] + TranslationOf(yaml_doc)[1]),
      Max(yaml_doc.ref_map.size[1][2],
          yaml_doc.robot_map.size[1][2] + TranslationOf(yaml_doc)[2])>>

\* every midpoint (R[i] + Q[i]) / 2 of a document lies inside the rectangle
\* from (0, 0) to the corner, the corner's sides left out
MidpointsInside(yaml_doc, corner) ==
    \A i \in 1..Len(yaml_doc.ref_map.correspondence_points[1]) :
        \A k \in 1..2 :
            /\ 0 <= yaml_doc.ref_map.correspondence_points[1][i][k]
                    + yaml_doc.robot_map.correspondence_points[1][i][k]
            /\ yaml_doc.ref_map.correspondence_points[1][i][k]
                    + yaml_doc.robot_map.correspondence_points[1][i][k] < 2 * corner[k]

\* a document has passed validation and each of its correspondence points
\* lies inside its own map
ValidAndInside(yaml_doc) ==
    /\ Kind(yaml_doc) = ""
    /\ InsideMap(yaml_doc.ref_map.correspondence_points[1], yaml_doc.ref_map.size[1])
    /\ InsideMap(yaml_doc.robot_map.correspondence_points[1], yaml_doc.robot_map.size[1])

\* C29: for every document that passes validation and whose correspondence
\* points each lie inside their own map, every midpoint lies inside the
\* rectangle from (0, 0) to (max(W_ref, W_robot + tx), max(H_ref, H_robot + ty))
\* the subdivision is made for, so that no midpoint is rejected.
C29_MidpointsInsideSeedRectangle ==
    (result.op = "load" /\ ValidAndInside(result.arg[2])) =>
        /\ MidpointsInside(result.arg[2], SeedCorner(result.arg[2]))
        /\ result.fault # "cv::Exception"

\* C29, the part of it that holds: so it is when the robot map is moved
\* neither left nor up
C29_MidpointsInsideWhenNotMovedBack ==
    (/\ result.op = "load"
     /\ ValidAndInside(result.arg[2])
     /\ TranslationOf(result.arg[2])[1] >= 0
     /\ TranslationOf(result.arg[2])[2] >= 0) =>
        /\ MidpointsInside(result.arg[2], SeedCorner(result.arg[2]))
        /\ result.fault # "cv::Exception"

\* C29, what happens instead: a reference map of 5 by 5 with the point
\* (4, 4) and a robot map of 7 by 7 with the point (6, 6), moved by (-7, -7):
\* the rectangle is 5 by 5, the midpoint is (5, 5) and the insertion has
\* thrown
C29_MidpointRejected ==
    /\ result.op = "load"
    /\ ValidAndInside(result.arg[2])
    /\ TranslationOf(result.arg[2]) = <<-7, -7>>
    /\ SeedCorner(result.arg[2]) = <<5, 5>>
    /\ result.arg[2].ref_map.correspondence_points = <<<<<<4, 4>>>>>>
    /\ result.arg[2].robot_map.correspondence_points = <<<<<<6, 6>>>>>>
    /\ result.fault = "cv::Exception"

====
